---------------------------- MODULE Spec2Model ----------------------------
(***************************************************************************)
(* Model of the http-fuzz executor (run_fuzz.py) and of the manifest       *)
(* decoder helpers it depends on (parse_input.py).                         *)
(*                                                                         *)
(* Python strings are modelled as sequences of one-character strings, so   *)
(* that find / rfind / slicing / replace / split / join are computed, not  *)
(* assumed.  Python indices are 0-based; At(s, i) reads s[i].              *)
(*                                                                         *)
(* The specifications share the variables:                                 *)
(*   SpecPreview  - _extract_preview, and run_baseline's _extract_body,    *)
(*                  applied to bounded bodies and configs                  *)
(*   SpecBuild    - manifest decoding, _build_base_request and             *)
(*                  _build_fuzz_request applied to bounded URLs and tasks  *)
(*   Spec         - a run of main(): the fatal setup exits, the dry run,   *)
(*                  the corpus fuzz run (task queue, N workers, result     *)
(*                  queue and collector) and the encoding probes           *)
(*   LiveSpec     - Spec with weak fairness of the main thread's loop      *)
(*   WorkerLiveSpec - Spec with weak fairness of every worker thread       *)
(*   SpecPure     - single calls of _coerce_value,                         *)
(*                  _is_fuzzable_path_segment, _build_fuzz_request and     *)
(*                  _classify_header                                       *)
(***************************************************************************)
EXTENDS Integers, Sequences, FiniteSets, TLC

VARIABLES
    \* ---- preview extractor (SpecPreview) ----
    body,        \* the response text handed to _extract_preview
    cfg,         \* the PreviewConfig: [length, offset, fuzzy_needle]
    preview,     \* the returned preview, or NoValue before the call
    window,      \* the (start, end) the slice was taken with, or NoValue
    \* ---- request reconstruction (SpecBuild, Spec) ----
    manifest,     \* the manifest a decoder produced
    corpus_dir,   \* the corpus directory: a dict from "<id>.txt" ids to lines
    base_request, \* the snapshot _build_base_request made of it
    task_q,       \* the task queue: (param, value) tasks and None sentinels
    fuzz_param,   \* the parameter id of the task built last (SpecBuild)
    fuzz_value,   \* its replacement value
    req,          \* the request _build_fuzz_request returned for it
    \* ---- corpus fuzz run and encoding probes (Spec) ----
    args,         \* the command line: [loadable, params, dry_run, probe_encodings]
    probes,       \* the encoding probes not yet sent: (label, content type, body)
    threads,      \* args.threads
    delay_ms,     \* args.delay_ms
    result_q,     \* the result queue: FuzzResult and Exception items
    unfinished,   \* task_q's count of items put and not yet task_done()
    wpc,          \* each worker's position in _worker
    witem,        \* each worker's current item
    completed,    \* main's count of consumed results
    total,        \* main's count of enqueued tasks
    stdout,       \* the lines written to standard output
    stderr,       \* the lines written to standard error
    \* ghost variables of the corpus fuzz run
    taken,        \* how many tasks have been taken off task_q
    wtask,        \* the enqueue number of each worker's current task
    wire,         \* per task or probe, the <<request, response>> exchanges
    collected,    \* the results consumed (or, of probes, printed), in order
    \* ---- single calls of the pure functions (SpecPure) ----
    call,         \* the call: [fn, value, type, param]
    result,       \* what it returned, or NoValue before the call
    pc            \* the position of the main thread

previewVars == <<body, cfg, preview, window>>
buildVars == <<manifest, corpus_dir, base_request, task_q, fuzz_param, fuzz_value, req>>
runVars ==
    <<args, probes, threads, delay_ms, result_q, unfinished, wpc, witem, completed, total,
      stdout, stderr, taken, wtask, wire, collected>>
pureVars == <<call, result>>
vars == <<previewVars, buildVars, runVars, pureVars, pc>>

\* Python's None where a string (or a pair) may stand: a one-element sequence
\* that is no string of the model, every string being a sequence of
\* one-character strings.
NoValue == <<"None">>

-----------------------------------------------------------------------------
(* Python string primitives.                                               *)

NL == "\n"
CR == "\r"
SP == " "

Max2(a, b) == IF a >= b THEN a ELSE b
Min2(a, b) == IF a <= b THEN a ELSE b

\* s[i] for 0 <= i < len(s)
At(s, i) == s[i + 1]

\* s[lo:hi] for lo, hi >= 0 (both clipped to len(s); empty when lo >= hi)
Slice(s, lo, hi) ==
    LET h == Min2(hi, Len(s))
    IN  IF lo >= h THEN <<>> ELSE SubSeq(s, lo + 1, h)

\* s.startswith(p, i)
StartsWithAt(s, p, i) ==
    /\ i + Len(p) <= Len(s)
    /\ \A k \in 1..Len(p) : s[i + k] = p[k]

\* s.find(p): lowest index where p occurs, -1 when it does not occur
Find(s, p) ==
    LET hits == {i \in 0..Len(s) : StartsWithAt(s, p, i)}
    IN  IF hits = {} THEN -1
        ELSE CHOOSE i \in hits : \A j \in hits : i <= j

\* s.rfind(c, lo, hi) for a one-character c and lo, hi >= 0
RFind(s, c, lo, hi) ==
    LET hits == {i \in lo..(Min2(hi, Len(s)) - 1) : At(s, i) = c}
    IN  IF hits = {} THEN -1
        ELSE CHOOSE i \in hits : \A j \in hits : i >= j

\* p in s
Contains(s, p) == Find(s, p) # -1

\* s.replace(c, r) for a one-character c and a replacement string r
RECURSIVE Replace(_, _, _)
Replace(s, c, r) ==
    IF s = <<>> THEN <<>>
    ELSE (IF Head(s) = c THEN r ELSE <<Head(s)>>) \o Replace(Tail(s), c, r)

\* s.split(sep) for a one-character sep: the list of the parts between the
\* separators (never empty: a string without sep is its own single part)
RECURSIVE Split(_, _)
Split(s, sep) ==
    LET i == Find(s, <<sep>>)
    IN  IF i = -1 THEN <<s>>
        ELSE <<Slice(s, 0, i)>> \o Split(Slice(s, i + 1, Len(s)), sep)

\* s.split(sep, 1): one part, or the parts before and after the first sep
Split1(s, sep) ==
    LET i == Find(s, <<sep>>)
    IN  IF i = -1 THEN <<s>>
        ELSE <<Slice(s, 0, i), Slice(s, i + 1, Len(s))>>

\* sep.join(parts)
RECURSIVE Join(_, _)
Join(parts, sep) ==
    IF parts = <<>> THEN <<>>
    ELSE IF Len(parts) = 1 THEN parts[1]
    ELSE parts[1] \o <<sep>> \o Join(Tail(parts), sep)

(* A Python dict is the sequence of its <<key, value>> items in insertion  *)
(* order, keys unique.                                                     *)

DictHas(d, k) == \E i \in 1..Len(d) : d[i][1] = k

\* d[k] for a key of d
DictGet(d, k) == d[CHOOSE i \in 1..Len(d) : d[i][1] = k][2]

\* d[k] = v: an existing key keeps its position, a new key goes last
DictSet(d, k, v) ==
    IF DictHas(d, k)
    THEN [i \in 1..Len(d) |-> IF d[i][1] = k THEN <<k, v>> ELSE d[i]]
    ELSE Append(d, <<k, v>>)

\* dict(items): later items overwrite earlier ones with the same key
RECURSIVE DictUpdate(_, _)
DictUpdate(d, items) ==
    IF items = <<>> THEN d
    ELSE DictUpdate(DictSet(d, Head(items)[1], Head(items)[2]), Tail(items))

DictOf(items) == DictUpdate(<<>>, items)

-----------------------------------------------------------------------------
(* urllib.parse, as run_fuzz.py and parse_input.py use it.  A URL is a     *)
(* string over characters and a few atoms that every operation below      *)
(* treats as a unit: "http", "h" (the host), "path_", the names "q", "id" *)
(* and the percent escapes "%20", "%2F", ...                              *)

Digits == {"0", "1", "2", "3", "4", "5", "6", "7", "8", "9"}
HexLetters == {"a", "b", "c", "d", "e", "f"}

\* s.isdigit()
IsDigitString(s) == s # <<>> /\ \A i \in 1..Len(s) : s[i] \in Digits

DigitValue(c) ==
    CASE c = "0" -> 0 [] c = "1" -> 1 [] c = "2" -> 2 [] c = "3" -> 3
      [] c = "4" -> 4 [] c = "5" -> 5 [] c = "6" -> 6 [] c = "7" -> 7
      [] c = "8" -> 8 [] c = "9" -> 9

\* int(s) for a string of digits
RECURSIVE IntOfDigits(_)
IntOfDigits(s) ==
    IF s = <<>> THEN 0
    ELSE 10 * IntOfDigits(SubSeq(s, 1, Len(s) - 1)) + DigitValue(s[Len(s)])

\* str(n) for an int n >= 0
RECURSIVE StrOfNat(_)
StrOfNat(n) ==
    IF n < 10 THEN <<CHOOSE c \in Digits : DigitValue(c) = n>>
    ELSE Append(StrOfNat(n \div 10), CHOOSE c \in Digits : DigitValue(c) = n % 10)

\* The percent escapes urllib.parse.quote_plus writes for the characters
\* that are not safe, and unquote reads back.
Escapes ==
    << <<"/", "%2F">>, <<"?", "%3F">>, <<"#", "%23">>, <<"&", "%26">>,
       <<"=", "%3D">>, <<"+", "%2B">>, <<";", "%3B">>, <<":", "%3A">>,
       <<"<", "%3C">>, <<">", "%3E">>, <<"'", "%27">>, <<NL, "%0A">>,
       <<CR, "%0D">> >>

QuotePlusChar(c) ==
    IF c = SP THEN "+"
    ELSE IF \E k \in 1..Len(Escapes) : Escapes[k][1] = c
    THEN Escapes[CHOOSE k \in 1..Len(Escapes) : Escapes[k][1] = c][2]
    ELSE c

\* urllib.parse.quote_plus(s): a space becomes '+', an unsafe character its
\* percent escape
QuotePlus(s) == [i \in 1..Len(s) |-> QuotePlusChar(s[i])]

UnquoteChar(c) ==
    IF c = "%20" THEN SP
    ELSE IF \E k \in 1..Len(Escapes) : Escapes[k][2] = c
    THEN Escapes[CHOOSE k \in 1..Len(Escapes) : Escapes[k][2] = c][1]
    ELSE c

\* urllib.parse.unquote(s): every percent escape becomes its character
\* ("%20", which quote_plus never writes, is a space too)
Unquote(s) == [i \in 1..Len(s) |-> UnquoteChar(s[i])]

\* The decoding parse_qsl applies to a name or a value:
\* unquote(s.replace('+', ' '))
UnquotePlus(s) == Unquote(Replace(s, "+", <<SP>>))

\* The second part of a split(sep, 1), '' when the separator was absent
SecondOrEmpty(parts) == IF Len(parts) = 2 THEN parts[2] ELSE <<>>

\* One field of a query string as a <<name, value>> pair: a field without
\* '=' has the value '' (keep_blank_values)
QslPairOf(nv) == <<UnquotePlus(nv[1]), UnquotePlus(SecondOrEmpty(nv))>>

\* The fields of a query string that are not empty
QslFields(qs) == SelectSeq(Split(qs, "&"), LAMBDA f : f # <<>>)

\* urllib.parse.parse_qsl(qs, keep_blank_values=True): the <<name, value>>
\* pairs of the '&'-separated fields, in order, duplicates kept; an empty
\* field is skipped
parse_qsl(qs) ==
    [k \in 1..Len(QslFields(qs)) |-> QslPairOf(Split1(QslFields(qs)[k], "="))]

\* urllib.parse.urlencode(d) for a dict of strings
urlencode(d) ==
    Join([k \in 1..Len(d) |-> QuotePlus(d[k][1]) \o <<"=">> \o QuotePlus(d[k][2])], "&")

SchemeAtoms == {"http"}

\* Lowest index i >= lo with s[i] in cs, else otherwise
FindAnyFrom(s, cs, lo, otherwise) ==
    IF \E i \in lo..(Len(s) - 1) : At(s, i) \in cs
    THEN CHOOSE i \in lo..(Len(s) - 1) :
            /\ At(s, i) \in cs
            /\ \A j \in lo..(i - 1) : At(s, j) \notin cs
    ELSE otherwise

\* urlsplit: (url[:i].lower(), url[i+1:]) when url[:i] is a scheme
SplitScheme(url) ==
    IF Find(url, <<":">>) > 0 /\ \A i \in 1..Find(url, <<":">>) : url[i] \in SchemeAtoms
    THEN <<Slice(url, 0, Find(url, <<":">>)), Slice(url, Find(url, <<":">>) + 1, Len(url))>>
    ELSE << <<>>, url >>

\* urlsplit: after '//' the netloc runs to the first of '/', '?', '#'
SplitNetloc(rest) ==
    IF Slice(rest, 0, 2) = <<"/", "/">>
    THEN <<Slice(rest, 2, FindAnyFrom(rest, {"/", "?", "#"}, 2, Len(rest))),
           Slice(rest, FindAnyFrom(rest, {"/", "?", "#"}, 2, Len(rest)), Len(rest))>>
    ELSE << <<>>, rest >>

\* The index of the first ';' of the last path segment, -1 without one
ParamsIndex(path) ==
    FindAnyFrom(path, {";"}, Max2(RFind(path, "/", 0, Len(path)), 0), -1)

\* urlparse's _splitparams(url): cut at the first ';' of the last segment
_splitparams(path) ==
    IF ParamsIndex(path) = -1 THEN <<path, <<>>>>
    ELSE <<Slice(path, 0, ParamsIndex(path)),
           Slice(path, ParamsIndex(path) + 1, Len(path))>>

\* What is left of a URL after its scheme and netloc, and what is left of
\* that before the first '#', and of that before the first '?'
AfterNetloc(url) == SplitNetloc(SplitScheme(url)[2])[2]
BeforeFragment(url) == Split1(AfterNetloc(url), "#")[1]
BeforeQuery(url) == Split1(BeforeFragment(url), "?")[1]

\* urllib.parse.urlparse(url): scheme, netloc, path, params, query, fragment.
\* The fragment is cut at the first '#', then the query at the first '?',
\* then the params at the first ';' of the last path segment.
urlparse(url) ==
    [scheme   |-> SplitScheme(url)[1],
     netloc   |-> SplitNetloc(SplitScheme(url)[2])[1],
     path     |-> IF SplitScheme(url)[1] # <<>> THEN _splitparams(BeforeQuery(url))[1]
                  ELSE BeforeQuery(url),
     params   |-> IF SplitScheme(url)[1] # <<>> THEN _splitparams(BeforeQuery(url))[2]
                  ELSE <<>>,
     query    |-> SecondOrEmpty(Split1(BeforeFragment(url), "?")),
     fragment |-> SecondOrEmpty(Split1(AfterNetloc(url), "#"))]

\* urlunsplit: '//' + netloc + url, a '/' put before a relative url
WithNetloc(url, netloc, scheme) ==
    IF netloc # <<>> \/ (scheme # <<>> /\ Slice(url, 0, 2) # <<"/", "/">>)
    THEN <<"/", "/">> \o netloc
            \o (IF url # <<>> /\ Slice(url, 0, 1) # <<"/">> THEN <<"/">> ELSE <<>>)
            \o url
    ELSE url

\* urllib.parse.urlunparse(parts): the params, the query and the fragment
\* are left out, with their delimiter, when empty
urlunparse(p) ==
    (IF p.scheme # <<>> THEN p.scheme \o <<":">> ELSE <<>>)
        \o WithNetloc(IF p.params # <<>> THEN p.path \o <<";">> \o p.params ELSE p.path,
                      p.netloc, p.scheme)
        \o (IF p.query # <<>> THEN <<"?">> \o p.query ELSE <<>>)
        \o (IF p.fragment # <<>> THEN <<"#">> \o p.fragment ELSE <<>>)

-----------------------------------------------------------------------------
(* JSON values of a manifest: one record shape for every kind, so that any *)
(* two values can be compared.                                             *)

JStr(s)   == [t |-> "str",   i |-> 0, s |-> s,    b |-> FALSE]
JInt(n)   == [t |-> "int",   i |-> n, s |-> <<>>, b |-> FALSE]
JBool(b)  == [t |-> "bool",  i |-> 0, s |-> <<>>, b |-> b]
JNull     == [t |-> "null",  i |-> 0, s |-> <<>>, b |-> FALSE]
\* a float: integer part i, fraction digits s (no trailing zeros), b = negative
JFloat(n, frac, neg) == [t |-> "float", i |-> n, s |-> frac, b |-> neg]

\* str(v)
PyStr(v) ==
    CASE v.t = "str"   -> v.s
      [] v.t = "int"   -> IF v.i < 0 THEN <<"-">> \o StrOfNat(0 - v.i) ELSE StrOfNat(v.i)
      [] v.t = "bool"  -> IF v.b THEN <<"True">> ELSE <<"False">>
      [] v.t = "null"  -> <<"None">>
      [] v.t = "float" -> (IF v.b THEN <<"-">> ELSE <<>>) \o StrOfNat(v.i) \o <<".">>
                              \o (IF v.s = <<>> THEN <<"0">> ELSE v.s)

-----------------------------------------------------------------------------
(* Manifest decoding: parse_input.py lines 58-235.                         *)

Param(name, value, type) ==
    [name |-> name, value |-> value, type |-> type, fuzzable |-> TRUE, reason |-> <<>>]

PathSegment(index, value, fuzzable) ==
    [index |-> index, value |-> value, fuzzable |-> fuzzable]

\* _infer_type(value)
_infer_type(v) ==
    CASE v.t = "null"  -> "null"
      [] v.t = "bool"  -> "boolean"
      [] v.t = "int"   -> "integer"
      [] v.t = "float" -> "float"
      [] OTHER         -> "string"

IsHexString(s) == \A i \in 1..Len(s) : s[i] \in Digits \cup HexLetters

\* The classifier with [0-9a-f]+ in place of [0-9a-f]{24,}
FuzzableHexOfAnyLength(segment) ==
    \/ IsDigitString(segment)
    \/ /\ Len(segment) = 36
       /\ \A i \in {9, 14, 19, 24} : segment[i] = "-"
       /\ \A i \in (1..36) \ {9, 14, 19, 24} : segment[i] \in Digits \cup HexLetters
    \/ segment # <<>> /\ IsHexString(segment)

\* _is_fuzzable_path_segment(segment): \d+, a canonical UUID, or 24 or more
\* hex digits
_is_fuzzable_path_segment(segment) ==
    \/ IsDigitString(segment)
    \/ /\ Len(segment) = 36
       /\ \A i \in {9, 14, 19, 24} : segment[i] = "-"
       /\ \A i \in (1..36) \ {9, 14, 19, 24} : segment[i] \in Digits \cup HexLetters
    \/ Len(segment) >= 24 /\ IsHexString(segment)

IsRealSegment(q) == q # <<>> /\ q # <<".">> /\ q # <<".", ".">>

\* _parse_path_segments(path)
_parse_path_segments(path) ==
    [k \in 1..Len(SelectSeq(Split(path, "/"), IsRealSegment)) |->
        PathSegment(k - 1, SelectSeq(Split(path, "/"), IsRealSegment)[k],
            _is_fuzzable_path_segment(SelectSeq(Split(path, "/"), IsRealSegment)[k]))]

\* _parse_query_string(qs)
_parse_query_string(qs) ==
    [k \in 1..Len(parse_qsl(qs)) |->
        Param(parse_qsl(qs)[k][1], JStr(parse_qsl(qs)[k][2]), "string")]

_SENSITIVE_HEADERS ==
    { <<"authorization">>, <<"cookie">>, <<"x-csrf-token">>, <<"x-xsrf-token">>,
      <<"x-api-key">>, <<"x-auth-token">>, <<"api-key">>, <<"x-access-token">> }

\* c.lower() for the header-name atoms of the model and for single letters
LowerAtom(c) ==
    CASE c = "Content-Type"  -> "content-type"
      [] c = "CONTENT-TYPE"  -> "content-type"
      [] c = "Cookie"        -> "cookie"
      [] c = "Authorization" -> "authorization"
      [] c = "AUTHORIZATION" -> "authorization"
      [] c = "X-Api-Key"     -> "x-api-key"
      [] c = "Accept"        -> "accept"
      [] c = "A" -> "a"
      [] c = "B" -> "b"
      [] c = "C" -> "c"
      [] c = "D" -> "d"
      [] c = "E" -> "e"
      [] c = "F" -> "f"
      [] c = "G" -> "g"
      [] c = "H" -> "h"
      [] c = "I" -> "i"
      [] c = "J" -> "j"
      [] c = "K" -> "k"
      [] c = "L" -> "l"
      [] c = "M" -> "m"
      [] c = "N" -> "n"
      [] c = "O" -> "o"
      [] c = "P" -> "p"
      [] c = "Q" -> "q"
      [] c = "R" -> "r"
      [] c = "S" -> "s"
      [] c = "T" -> "t"
      [] c = "U" -> "u"
      [] c = "V" -> "v"
      [] c = "W" -> "w"
      [] c = "X" -> "x"
      [] c = "Y" -> "y"
      [] c = "Z" -> "z"
      [] OTHER               -> c

\* s.lower()
Lower(s) == [i \in 1..Len(s) |-> LowerAtom(s[i])]

\* The text of a string of the model: its characters and atoms run together,
\* so that two strings are compared as Python compares them
RECURSIVE Text(_)
Text(s) == IF s = <<>> THEN "" ELSE s[1] \o Text(Tail(s))

\* _classify_header looking the name up as it is written, without lower()
ClassifyHeaderCaseSensitive(name, value) ==
    LET sensitive == Text(name) \in {Text(h) : h \in _SENSITIVE_HEADERS}
    IN  [name     |-> name,
         value    |-> value,
         fuzzable |-> ~sensitive,
         reason   |-> IF sensitive THEN <<"auth/session material">> ELSE <<>>]

\* _classify_header(name, value)
_classify_header(name, value) ==
    LET sensitive == Text(Lower(name)) \in {Text(h) : h \in _SENSITIVE_HEADERS}
    IN  [name     |-> name,
         value    |-> value,
         fuzzable |-> ~sensitive,
         reason   |-> IF sensitive THEN <<"auth/session material">> ELSE <<>>]

ManifestOf(method, url, parsed, headers_raw, body_format, body_params) ==
    [method        |-> method,
     url           |-> url,
     base_url      |-> urlunparse([parsed EXCEPT !.query = <<>>, !.fragment = <<>>]),
     path_segments |-> _parse_path_segments(parsed.path),
     query_params  |-> _parse_query_string(parsed.query),
     headers       |-> [k \in 1..Len(headers_raw) |->
                           _classify_header(headers_raw[k][1], headers_raw[k][2])],
     body_format   |-> body_format,
     body_params   |-> body_params]

\* _build_manifest_from_parts(method, url, headers_raw, body_text), the body
\* given as its decoded format and parameters
_build_manifest_from_parts(method, url, headers_raw, body_format, body_params) ==
    ManifestOf(method, url, urlparse(url), headers_raw, body_format, body_params)

-----------------------------------------------------------------------------
(* Request reconstruction: run_fuzz.py lines 157-295, and the baseline     *)
(* request of run_baseline.py lines 32-60.  A request (and the base        *)
(* snapshot) is a record with the set of the keys the Python dict holds;   *)
(* a field whose key is absent is the empty dict.                          *)

IsContentType(k) == Lower(k) = <<"content-type">>

\* {k: v for k, v in headers.items() if k.lower() != "content-type"}
WithoutContentType(headers) == SelectSeq(headers, LAMBDA kv : ~IsContentType(kv[1]))

\* {p["name"]: p["value"] for p in params}
ParamDict(params) == DictOf([k \in 1..Len(params) |-> <<params[k].name, params[k].value>>])

\* f"path_{p['index']}"
PathId(q) == <<"path_">> \o StrOfNat(q.index)

\* The ids of the fuzzable path segments, and the names of the fuzzable
\* parameters of a list
FuzzablePathIds(segments) ==
    [k \in 1..Len(SelectSeq(segments, LAMBDA q : q.fuzzable)) |->
        PathId(SelectSeq(segments, LAMBDA q : q.fuzzable)[k])]
FuzzableNames(params) ==
    [k \in 1..Len(SelectSeq(params, LAMBDA q : q.fuzzable)) |->
        SelectSeq(params, LAMBDA q : q.fuzzable)[k].name]

\* [p for p in params if p in only] when only is a non-empty list
FilterOnly(params, only) ==
    IF only # <<>>
    THEN SelectSeq(params, LAMBDA q : \E k \in 1..Len(only) : only[k] = q)
    ELSE params

\* _get_fuzzable_params collecting the body parameters first and the path
\* segments last
GetFuzzableParamsBodyFirst(m, only) ==
    FilterOnly(FuzzableNames(m.body_params) \o FuzzableNames(m.query_params)
                   \o FuzzablePathIds(m.path_segments),
               only)

\* _get_fuzzable_params(manifest, only); the empty list stands for None too
\* (line 173 tests the truth of only)
_get_fuzzable_params(m, only) ==
    FilterOnly(FuzzablePathIds(m.path_segments) \o FuzzableNames(m.query_params)
                   \o FuzzableNames(m.body_params),
               only)

\* {h["name"]: h["value"] for h in manifest.get("headers", [])}
HeaderDict(m) == ParamDict(m.headers)

\* Lines 192-196: the query string re-made from the dict of its pairs, each
\* manifest query parameter written over it
BakeQuery(parsed, query_params) ==
    urlunparse([parsed EXCEPT !.query =
        urlencode(DictUpdate(DictOf(parse_qsl(parsed.query)),
            [k \in 1..Len(query_params) |->
                <<query_params[k].name, PyStr(query_params[k].value)>>]))])

BaseUrl(m) == IF m.query_params # <<>> THEN BakeQuery(urlparse(m.url), m.query_params)
              ELSE m.url

\* "json" or "form" when the body is stored as _body_json / _body_form
StoredBody(m) ==
    IF m.body_params # <<>> /\ m.body_format \in {"json", "form"} THEN m.body_format
    ELSE ""

\* _build_base_request(manifest)
_build_base_request(m) ==
    [keys           |-> {"method", "url", "headers"}
                          \cup (IF m.path_segments # <<>> THEN {"_path_segments"} ELSE {})
                          \cup (IF StoredBody(m) = "json" THEN {"_body_json"} ELSE {})
                          \cup (IF StoredBody(m) = "form" THEN {"_body_form"} ELSE {}),
     method         |-> m.method,
     url            |-> BaseUrl(m),
     headers        |-> IF StoredBody(m) # "" THEN WithoutContentType(HeaderDict(m))
                        ELSE HeaderDict(m),
     _path_segments |-> DictOf([k \in 1..Len(m.path_segments) |->
                            <<m.path_segments[k].index, m.path_segments[k].value>>]),
     _body_json     |-> IF StoredBody(m) = "json" THEN ParamDict(m.body_params) ELSE <<>>,
     _body_form     |-> IF StoredBody(m) = "form" THEN ParamDict(m.body_params) ELSE <<>>]

IsSpace(c) == c \in {SP, NL, CR}

\* s[lo:hi + 1] for the first and last index of keep, '' when keep is empty
SpanOf(s, keep) ==
    IF keep = {} THEN <<>>
    ELSE SubSeq(s, CHOOSE i \in keep : \A j \in keep : i <= j,
                   CHOOSE i \in keep : \A j \in keep : i >= j)

\* s.strip(): int() and float() ignore surrounding whitespace
StripSpace(s) == SpanOf(s, {i \in 1..Len(s) : ~IsSpace(s[i])})

Unsigned(s) == IF s # <<>> /\ s[1] \in {"-", "+"} THEN Tail(s) ELSE s
IsNegative(s) == s # <<>> /\ s[1] = "-"

\* int(value) succeeds: optional sign and digits
IsIntLiteral(value) == IsDigitString(Unsigned(StripSpace(value)))

IntLiteral(value) ==
    IF IsNegative(StripSpace(value))
    THEN 0 - IntOfDigits(Unsigned(StripSpace(value)))
    ELSE IntOfDigits(Unsigned(StripSpace(value)))

IsFloatParts(ps) ==
    /\ Len(ps) = 2
    /\ ps[1] \o ps[2] # <<>>
    /\ \A k \in 1..2 : ps[k] = <<>> \/ IsDigitString(ps[k])

\* float(value) succeeds, for a value with a '.' and no exponent
IsFloatLiteral(value) == IsFloatParts(Split(Unsigned(StripSpace(value)), "."))

RECURSIVE StripTrailingZeros(_)
StripTrailingZeros(s) ==
    IF s # <<>> /\ s[Len(s)] = "0" THEN StripTrailingZeros(SubSeq(s, 1, Len(s) - 1))
    ELSE s

FloatLiteral(value) ==
    JFloat(IntOfDigits(Split(Unsigned(StripSpace(value)), ".")[1]),
           StripTrailingZeros(Split(Unsigned(StripSpace(value)), ".")[2]),
           IsNegative(StripSpace(value)))

\* Line 287 without its float() branch: int(value) for every value
NumberOfIntOnly(value, hasDot) ==
    IF IsIntLiteral(value) THEN JInt(IntLiteral(value)) ELSE JNull

\* Lines 285-289: float(value) if "." in value else int(value), None standing
\* for the ValueError that line 288 passes over
NumberOf(value, hasDot) ==
    IF hasDot
    THEN (IF IsFloatLiteral(value) THEN FloatLiteral(value) ELSE JNull)
    ELSE (IF IsIntLiteral(value) THEN JInt(IntLiteral(value)) ELSE JNull)

CoerceNumber(value, number, original_type) ==
    IF number # JNull THEN number
    ELSE IF original_type = "boolean" /\ value \in {<<"1">>, <<"yes">>, <<"on">>}
    THEN JBool(TRUE)
    ELSE IF original_type = "boolean" /\ value \in {<<"0">>, <<"no">>, <<"off">>}
    THEN JBool(FALSE)
    ELSE JStr(value)

\* _coerce_value(value, original_type)
_coerce_value(value, original_type) ==
    IF value = <<"null">> THEN JNull
    ELSE IF value = <<"true">> THEN JBool(TRUE)
    ELSE IF value = <<"false">> THEN JBool(FALSE)
    ELSE CoerceNumber(value,
                      IF original_type \in {"integer", "float"}
                      THEN NumberOf(value, Contains(value, <<".">>)) ELSE JNull,
                      original_type)

\* The type of the first body parameter named param, "string" when there is
\* none (lines 261-265)
OriginalType(m, param) ==
    IF \E k \in 1..Len(m.body_params) : m.body_params[k].name = param
    THEN m.body_params[CHOOSE k \in 1..Len(m.body_params) :
                          /\ m.body_params[k].name = param
                          /\ \A j \in 1..(k - 1) : m.body_params[j].name # param].type
    ELSE "string"

\* path_parts after the loop of lines 244-247: every stored segment index idx
\* overwrites path_parts[idx + 1] when that position exists (the position
\* pos below is 1-based: it is Python's path_parts[pos - 1], segment pos - 2)
OverwriteSegments(path_parts, segments) ==
    [pos \in 1..Len(path_parts) |->
        IF DictHas(segments, pos - 2) THEN DictGet(segments, pos - 2)
        ELSE path_parts[pos]]

\* Lines 236-249
PathFuzzUrl(parsed, segments) ==
    urlunparse([parsed EXCEPT !.path =
        Join(OverwriteSegments(Split(parsed.path, "/"), segments), "/")])

\* Lines 252-257
QueryFuzzUrl(parsed, param, value) ==
    urlunparse([parsed EXCEPT !.query =
        urlencode(DictSet(DictOf(parse_qsl(parsed.query)), param, value))])

\* Lines 223-224: the keys of base that do not start with '_'
RequestCopy(base) ==
    [keys    |-> base.keys \ {"_path_segments", "_body_json", "_body_form"},
     method  |-> base.method,
     url     |-> base.url,
     headers |-> base.headers,
     json    |-> <<>>,
     data    |-> <<>>]

ParamNames(params) == {params[k].name : k \in 1..Len(params)}

\* _build_fuzz_request(base, param, value, manifest)
_build_fuzz_request(base, param, value, m) ==
    IF Slice(param, 0, 1) = <<"path_">> /\ IsDigitString(Slice(param, 1, Len(param)))
    THEN [RequestCopy(base) EXCEPT !.url =
            PathFuzzUrl(urlparse(base.url),
                        DictSet(base._path_segments,
                                IntOfDigits(Slice(param, 1, Len(param))), value))]
    ELSE IF param \in ParamNames(m.query_params)
    THEN [RequestCopy(base) EXCEPT !.url = QueryFuzzUrl(urlparse(base.url), param, value)]
    ELSE IF param \in ParamNames(m.body_params) /\ m.body_format = "json"
    THEN [RequestCopy(base) EXCEPT
            !.keys = @ \cup {"json"},
            !.json = DictSet(base._body_json, param,
                             _coerce_value(value, OriginalType(m, param)))]
    ELSE IF param \in ParamNames(m.body_params) /\ m.body_format = "form"
    THEN [RequestCopy(base) EXCEPT
            !.keys = @ \cup {"data"},
            !.data = DictSet(base._body_form, param, JStr(value))]
    ELSE RequestCopy(base)

\* dict(d) (lines 238, 259 and 270): a new dict object holding the items of
\* base[field]; the object is named by the field it was copied from
DictCopyOf(field) == [field |-> field, same_object |-> FALSE]

\* obj[key] = val (lines 239, 265 and 271): base after the store, which
\* reaches base only when obj is the very dict object base holds
StoreItem(base, obj, key, val) ==
    IF obj.same_object /\ obj.field \in base.keys
    THEN [base EXCEPT ![obj.field] = DictSet(@, key, val)]
    ELSE base

\* _build_fuzz_request with body = base.get("_body_json", {}) and
\* body = base.get("_body_form", {}) in place of the dict(...) copies
BaseAfterSharingBody(base, param, value, m) ==
    IF Slice(param, 0, 1) = <<"path_">> /\ IsDigitString(Slice(param, 1, Len(param)))
    THEN StoreItem(base, DictCopyOf("_path_segments"),
                   IntOfDigits(Slice(param, 1, Len(param))), value)
    ELSE IF param \in ParamNames(m.query_params)
    THEN base
    ELSE IF param \in ParamNames(m.body_params) /\ m.body_format = "json"
    THEN StoreItem(base, [field |-> "_body_json", same_object |-> TRUE], param,
                   _coerce_value(value, OriginalType(m, param)))
    ELSE IF param \in ParamNames(m.body_params) /\ m.body_format = "form"
    THEN StoreItem(base, [field |-> "_body_form", same_object |-> TRUE], param,
                   JStr(value))
    ELSE base

\* The dict base as _build_fuzz_request(base, param, value, manifest) leaves
\* it.  req is a new dict (line 223) and so is req["headers"] (line 224);
\* the stores of the function go into req, into segments (line 239) and
\* into body (lines 265 and 271)
BaseAfterFuzzRequest(base, param, value, m) ==
    IF Slice(param, 0, 1) = <<"path_">> /\ IsDigitString(Slice(param, 1, Len(param)))
    THEN StoreItem(base, DictCopyOf("_path_segments"),
                   IntOfDigits(Slice(param, 1, Len(param))), value)
    ELSE IF param \in ParamNames(m.query_params)
    THEN base
    ELSE IF param \in ParamNames(m.body_params) /\ m.body_format = "json"
    THEN StoreItem(base, DictCopyOf("_body_json"), param,
                   _coerce_value(value, OriginalType(m, param)))
    ELSE IF param \in ParamNames(m.body_params) /\ m.body_format = "form"
    THEN StoreItem(base, DictCopyOf("_body_form"), param, JStr(value))
    ELSE base

\* run_baseline._build_request(manifest): the request with every original
\* value
_build_request(m) ==
    [keys    |-> {"method", "url", "headers"}
                    \cup (IF StoredBody(m) = "json" THEN {"json"} ELSE {})
                    \cup (IF StoredBody(m) = "form"
                             \/ (StoredBody(m) = "" /\ m.body_format = "raw")
                          THEN {"data"} ELSE {}),
     method  |-> m.method,
     url     |-> m.url,
     headers |-> IF StoredBody(m) # "" THEN WithoutContentType(HeaderDict(m))
                 ELSE HeaderDict(m),
     json    |-> IF StoredBody(m) = "json" THEN ParamDict(m.body_params) ELSE <<>>,
     data    |-> IF StoredBody(m) = "form" THEN ParamDict(m.body_params) ELSE <<>>]

-----------------------------------------------------------------------------
(* Corpus loading and task order: run_fuzz.py lines 137-154 and 606-608.   *)
(* The corpus directory is a dict from a parameter id (the file            *)
(* "<id>.txt") to the list of the file's lines.                            *)

\* line.strip() is not empty
NonBlank(line) == StripSpace(line) # <<>>

\* [line for line in lines if line.strip()] of the file of param, [] when
\* there is no such file
CorpusValues(files, param) ==
    IF DictHas(files, param) THEN SelectSeq(DictGet(files, param), NonBlank) ELSE <<>>

RECURSIVE LoadCorpusInto(_, _, _)
LoadCorpusInto(corpus, files, params) ==
    IF params = <<>> THEN corpus
    ELSE LoadCorpusInto(IF CorpusValues(files, Head(params)) # <<>>
                        THEN DictSet(corpus, Head(params),
                                     CorpusValues(files, Head(params)))
                        ELSE corpus,
                        files, Tail(params))

\* _load_corpus(corpus_dir, target_params): {param: [values]} for every
\* parameter whose file exists and has a line that is not blank
_load_corpus(files, target_params) == LoadCorpusInto(<<>>, files, target_params)

\* _load_corpus warning of a missing file only, silent about an empty one
CorpusWarningMissingOnly(files, param) ==
    IF ~DictHas(files, param) THEN << <<"[warn] No corpus file for", param>> >>
    ELSE <<>>

\* The warning _load_corpus prints for a parameter, none when it has values
CorpusWarning(files, param) ==
    IF ~DictHas(files, param) THEN << <<"[warn] No corpus file for", param>> >>
    ELSE IF CorpusValues(files, param) = <<>>
    THEN << <<"[warn] Corpus file is empty, skipping", param>> >>
    ELSE <<>>

RECURSIVE CorpusWarnings(_, _)
CorpusWarnings(files, params) ==
    IF params = <<>> THEN <<>>
    ELSE CorpusWarning(files, Head(params)) \o CorpusWarnings(files, Tail(params))

\* The tasks in the order lines 606-608 enqueue them: parameter-major, each
\* parameter's values in file order.
RECURSIVE TasksOf(_)
TasksOf(corpus) ==
    IF corpus = <<>> THEN <<>>
    ELSE [j \in 1..Len(corpus[1][2]) |-> <<corpus[1][1], corpus[1][2][j]>>]
             \o TasksOf(Tail(corpus))

-----------------------------------------------------------------------------
(* Preview extractor: run_fuzz.py lines 32-112.                            *)

DEFAULT_PREVIEW_LENGTH == 1000
_HTML_BOUNDARY_SEARCH == 80

\* PreviewConfig(length, offset, fuzzy_needle)
PreviewConfig(length, offset, fuzzy_needle) ==
    [length |-> length, offset |-> offset, fuzzy_needle |-> fuzzy_needle]

\* _snap_to_html_boundary with lo = max(0, pos - search_range): the floor
\* is not looked at
SnapIgnoringFloor(b, pos, search_range, prefer_open, floor) ==
    LET lo  == Max2(0, pos - search_range)
        idx == RFind(b, IF prefer_open THEN ">" ELSE "<", lo, pos)
    IN  IF prefer_open
        THEN (IF idx # -1 THEN idx + 1 ELSE pos)
        ELSE (IF idx # -1 THEN idx ELSE pos)

\* _snap_to_html_boundary(body, pos, search_range, prefer_open, floor)
_snap_to_html_boundary(b, pos, search_range, prefer_open, floor) ==
    LET lo  == Max2(floor, pos - search_range)
        idx == RFind(b, IF prefer_open THEN ">" ELSE "<", lo, pos)
    IN  IF prefer_open
        THEN (IF idx # -1 THEN idx + 1 ELSE pos)
        ELSE (IF idx # -1 THEN idx ELSE pos)

\* _extract_preview falling back to (0, length) when the needle is absent
PreviewWindowFallbackFromZero(b, c) ==
    IF c.fuzzy_needle # NoValue
    THEN LET needle_pos == Find(b, c.fuzzy_needle)
         IN  IF needle_pos = -1
             THEN <<0, c.length>>
             ELSE LET half   == c.length \div 2
                      mid    == needle_pos + (Len(c.fuzzy_needle) \div 2)
                      start0 == Max2(0, mid - half)
                      end0   == Min2(Len(b), start0 + c.length)
                      start  == _snap_to_html_boundary(b, start0,
                                    _HTML_BOUNDARY_SEARCH, TRUE, 0)
                      end    == _snap_to_html_boundary(b, end0,
                                    _HTML_BOUNDARY_SEARCH, FALSE, start)
                 IN  <<start, end>>
    ELSE <<c.offset, c.offset + c.length>>

\* The (start, end) pair _extract_preview slices the body with.
PreviewWindow(b, c) ==
    IF c.fuzzy_needle # NoValue
    THEN LET needle_pos == Find(b, c.fuzzy_needle)
         IN  IF needle_pos = -1
             THEN <<c.offset, c.offset + c.length>>
             ELSE LET half   == c.length \div 2
                      mid    == needle_pos + (Len(c.fuzzy_needle) \div 2)
                      start0 == Max2(0, mid - half)
                      end0   == Min2(Len(b), start0 + c.length)
                      start  == _snap_to_html_boundary(b, start0,
                                    _HTML_BOUNDARY_SEARCH, TRUE, 0)
                      end    == _snap_to_html_boundary(b, end0,
                                    _HTML_BOUNDARY_SEARCH, FALSE, start)
                 IN  <<start, end>>
    ELSE <<c.offset, c.offset + c.length>>

\* _extract_preview(body, cfg)
_extract_preview(b, c) ==
    LET w == PreviewWindow(b, c)
    IN  Replace(Replace(Slice(b, w[1], w[2]), NL, <<SP>>), CR, <<>>)

\* run_baseline._extract_body(text, preview_length, preview_offset,
\* preview_find), run_baseline.py lines 66-115: the snapping is written out
\* in the function, with the same search distance of 80
_extract_body(text, preview_length, preview_offset, preview_find) ==
    IF preview_length = 0
    THEN Replace(Replace(text, NL, <<SP>>), CR, <<>>)
    ELSE IF preview_find # NoValue /\ Find(text, preview_find) # -1
    THEN LET half   == preview_length \div 2
             mid    == Find(text, preview_find) + (Len(preview_find) \div 2)
             start0 == Max2(0, mid - half)
             end0   == Min2(Len(text), start0 + preview_length)
             idx1   == RFind(text, ">", Max2(0, start0 - _HTML_BOUNDARY_SEARCH), start0)
             start  == IF idx1 # -1 THEN idx1 + 1 ELSE start0
             idx2   == RFind(text, "<", Max2(start, end0 - _HTML_BOUNDARY_SEARCH), end0)
             end    == IF idx2 # -1 THEN idx2 ELSE end0
         IN  Replace(Replace(Slice(text, start, end), NL, <<SP>>), CR, <<>>)
    ELSE Replace(Replace(Slice(text, preview_offset, preview_offset + preview_length),
                         NL, <<SP>>), CR, <<>>)

\* Inputs of the preview extractor.
MaxBody == 4
Alphabet == {"a", "b", "<", ">", NL, CR}

RECURSIVE StringsUpTo(_)
StringsUpTo(n) ==
    IF n = 0 THEN {<<>>}
    ELSE LET shorter == StringsUpTo(n - 1)
         IN  shorter \cup {Append(s, c) : s \in {t \in shorter : Len(t) = n - 1},
                                           c \in Alphabet}

Bodies == StringsUpTo(MaxBody)

\* Bodies with one boundary character at about the search distance from the
\* needle "a": '>' followed by d times 'b' and "ab", and '<' followed by d
\* times 'b' and "a"
LongBodies ==
    {(<<">">> \o [i \in 1..d |-> "b"]) \o <<"a", "b">>
        : d \in (_HTML_BOUNDARY_SEARCH - 1)..(_HTML_BOUNDARY_SEARCH + 1)}
    \cup {(<<"<">> \o [i \in 1..d |-> "b"]) \o <<"a">>
        : d \in (_HTML_BOUNDARY_SEARCH - 3)..(_HTML_BOUNDARY_SEARCH - 1)}
Needles == {NoValue, <<"a">>, <<"a", "b">>, <<"<">>}
Lengths == (0..MaxBody) \cup {DEFAULT_PREVIEW_LENGTH}
Offsets == {0, 2, MaxBody + 1}
Configs == {PreviewConfig(l, o, n) : l \in Lengths, o \in Offsets, n \in Needles}

\* The variables of the other specifications, at rest.
PreviewIdle == body = <<>> /\ cfg = NoValue /\ preview = NoValue /\ window = NoValue
PureIdle == call = NoValue /\ result = NoValue
BuildIdle ==
    /\ manifest = NoValue /\ corpus_dir = <<>> /\ base_request = NoValue
    /\ task_q = <<>> /\ fuzz_param = NoValue /\ fuzz_value = NoValue /\ req = NoValue
RunIdle ==
    /\ args = NoValue /\ probes = <<>>
    /\ threads = 0 /\ delay_ms = 0 /\ result_q = <<>> /\ unfinished = 0
    /\ wpc = <<>> /\ witem = <<>> /\ completed = 0 /\ total = 0
    /\ stdout = <<>> /\ stderr = <<>>
    /\ taken = 0 /\ wtask = <<>> /\ wire = <<>> /\ collected = <<>>

InitPreview ==
    /\ BuildIdle
    /\ RunIdle
    /\ PureIdle
    /\ body \in Bodies \cup LongBodies
    /\ cfg \in Configs
    /\ preview = NoValue
    /\ window = NoValue
    /\ pc = "preview_call"

\* body = _extract_preview(resp.text, cfg)   (run_fuzz.py line 440)
ExtractPreview ==
    /\ pc = "preview_call"
    /\ preview' = _extract_preview(body, cfg)
    /\ window' = PreviewWindow(body, cfg)
    /\ pc' = "preview_done"
    /\ UNCHANGED <<body, cfg, buildVars, runVars, pureVars>>

\* body_preview = _extract_body(text, preview_length, preview_offset,
\* preview_find)   (run_baseline.py, _send_request)
ExtractBody ==
    /\ pc = "preview_call"
    /\ result' = _extract_body(body, cfg.length, cfg.offset, cfg.fuzzy_needle)
    /\ pc' = "body_done"
    /\ UNCHANGED <<call, previewVars, buildVars, runVars>>

NextPreview == ExtractPreview \/ ExtractBody

SpecPreview == InitPreview /\ [][NextPreview]_vars

-----------------------------------------------------------------------------
(* Request reconstruction as a state machine: a decoder produces the       *)
(* manifest, main() builds the base snapshot once (line 594) and the       *)
(* workers call _build_fuzz_request for one task after another (line 480). *)

MaxSegs == 2

Origin == <<"http", ":", "/", "/", "h">>

\* The '/'-separated parts a URL path is made of.
PathParts == {<<"a">>, <<"1">>, <<>>, <<".">>, <<".", ".">>}

RECURSIVE PartLists(_)
PartLists(n) ==
    IF n = 0 THEN {<<>>}
    ELSE LET shorter == PartLists(n - 1)
         IN  shorter \cup {Append(l, q) : l \in {t \in shorter : Len(t) = n - 1},
                                           q \in PathParts}

\* "" and "/" + "/".join(parts)
Paths == {IF l = <<>> THEN <<>> ELSE <<"/">> \o Join(l, "/") : l \in PartLists(MaxSegs)}

\* Query strings (without the '?'); NoValue: the URL has none.
Queries ==
    { NoValue,
      <<"q", "=", "1">>,
      <<"q", "=", "1", "&", "id", "=", "2">>,
      <<"q", "=", "1", "&", "q", "=", "2">>,
      <<"q", "=", "a", "%20", "b">>,
      <<"path_", "0", "=", "1">>,
      <<"id">> }

Fragments == {NoValue, <<"f">>}

Urls ==
    { Origin \o path
        \o (IF q = NoValue THEN <<>> ELSE <<"?">> \o q)
        \o (IF f = NoValue THEN <<>> ELSE <<"#">> \o f)
      : path \in Paths, q \in Queries, f \in Fragments }

\* The rest of a request as a decoder sees it: method, header lines, and the
\* body as its detected format and decoded parameters.
RequestKinds ==
    { [method |-> "GET", headers |-> << <<<<"Cookie">>, <<"c">>>> >>,
       body_format |-> "", body_params |-> <<>>],
      [method |-> "POST",
       headers |-> << <<<<"Content-Type">>, <<"json">>>>, <<<<"Accept">>, <<"x">>>> >>,
       body_format |-> "json",
       body_params |-> <<Param(<<"id">>, JInt(7), "integer"),
                         Param(<<"q">>, JStr(<<"x">>), "string")>>],
      [method |-> "POST", headers |-> << <<<<"content-type">>, <<"form">>>> >>,
       body_format |-> "form",
       body_params |-> <<Param(<<"q">>, JStr(<<"x">>), "string"),
                         Param(<<"id">>, JStr(<<"2">>), "string")>>],
      [method |-> "POST", headers |-> <<>>,
       body_format |-> "raw", body_params |-> <<>>] }

Manifests ==
    { _build_manifest_from_parts(k.method, u, k.headers, k.body_format, k.body_params)
      : u \in Urls, k \in RequestKinds }

\* Corpus values: the lines of every parameter's corpus file, in file order
\* (_load_corpus keeps the lines that are not blank).
Values ==
    << <<"X">>, <<"9">>, <<".", ".", "/", "X">>, <<"X", "#", "X">>, <<"null">> >>

\* A corpus directory with a file for every fuzzable parameter id.
FullCorpusDir(m) ==
    DictOf([k \in 1..Len(_get_fuzzable_params(m, <<>>)) |->
               <<_get_fuzzable_params(m, <<>>)[k], Values>>])

InitBuild ==
    /\ PreviewIdle
    /\ RunIdle
    /\ PureIdle
    /\ manifest \in Manifests
    /\ corpus_dir = FullCorpusDir(manifest)
    /\ base_request = NoValue
    /\ task_q = <<>>
    /\ fuzz_param = NoValue
    /\ fuzz_value = NoValue
    /\ req = NoValue
    /\ pc = "build_base"

\* main(), lines 569-576: without a fuzzable parameter the run ends with an
\* error object and exit status 1
NoFuzzableParams ==
    /\ pc = "build_base"
    /\ _get_fuzzable_params(manifest, <<>>) = <<>>
    /\ pc' = "exit_1"
    /\ UNCHANGED <<pureVars, previewVars, buildVars, runVars>>

\* main(), lines 569-608: the corpus is loaded, base_request =
\* _build_base_request(manifest), and every (param, value) task is enqueued
BuildBase ==
    /\ pc = "build_base"
    /\ _get_fuzzable_params(manifest, <<>>) # <<>>
    /\ base_request' = _build_base_request(manifest)
    /\ task_q' = TasksOf(_load_corpus(corpus_dir, _get_fuzzable_params(manifest, <<>>)))
    /\ pc' = "build_fuzz"
    /\ UNCHANGED <<pureVars, previewVars, manifest, corpus_dir, fuzz_param, fuzz_value, req, runVars>>

\* param, value = task_q.get(); req = _build_fuzz_request(base_request,
\* param, value, manifest)   (run_fuzz.py lines 470-480)
BuildFuzz ==
    /\ pc = "build_fuzz"
    /\ task_q # <<>>
    /\ fuzz_param' = Head(task_q)[1]
    /\ fuzz_value' = Head(task_q)[2]
    /\ req' = _build_fuzz_request(base_request, Head(task_q)[1], Head(task_q)[2],
                                  manifest)
    /\ base_request' = BaseAfterFuzzRequest(base_request, Head(task_q)[1],
                                             Head(task_q)[2], manifest)
    /\ task_q' = Tail(task_q)
    /\ pc' = "build_fuzz"
    /\ UNCHANGED <<pureVars, previewVars, manifest, corpus_dir, runVars>>

NextBuild == NoFuzzableParams \/ BuildBase \/ BuildFuzz

SpecBuild == InitBuild /\ [][NextBuild]_vars

-----------------------------------------------------------------------------
(* The corpus fuzz run: run_fuzz.py lines 427-488 and 569-651.  The main   *)
(* thread sets the run up, starts N daemon workers and collects results;   *)
(* each worker loops over task_q.  Time is not measured: a blocking get    *)
(* with a timeout may give up whenever the queue is empty.                 *)

MaxThreads == 2

\* What session.request does with a request: a response, or an exception.
\* Timeout and the other RequestException classes are the transport errors
\* of the requests library (their messages are never empty); "Exception" is
\* any other exception.
Responses ==
    { [kind |-> "response", status_code |-> <<"2", "0", "0">>,
       text |-> <<"<", "a", ">", NL, "b", CR>>,
       headers |-> << <<<<"Content-Type">>, <<"text/html">>>> >>, message |-> <<>>],
      [kind |-> "Timeout", status_code |-> NoValue, text |-> <<>>,
       headers |-> <<>>, message |-> <<"timed out">>],
      [kind |-> "RequestException", status_code |-> NoValue, text |-> <<>>,
       headers |-> <<>>, message |-> <<"connection refused">>],
      [kind |-> "Exception", status_code |-> NoValue, text |-> <<>>,
       headers |-> <<>>, message |-> <<"boom">>] }

\* An item of the result queue.  task is a ghost field: the enqueue number
\* of the task the item was produced for.  An Exception item has a message
\* (in error) and no other field.
FuzzResult(task, param, value, status_code, length, type, body_preview, error) ==
    [class |-> "FuzzResult", task |-> task, param |-> param, value |-> value,
     status_code |-> status_code, content_length |-> length,
     content_type |-> type, body_preview |-> body_preview,
     error |-> error, probe_encoding |-> NoValue]

Raised(task, message) ==
    [class |-> "Exception", task |-> task, param |-> NoValue, value |-> NoValue,
     status_code |-> NoValue, content_length |-> 0, content_type |-> <<>>,
     body_preview |-> <<>>, error |-> message, probe_encoding |-> NoValue]

\* resp.headers.get("content-type", ""): header names match in any case
HeaderOr(headers, name, default) ==
    IF \E k \in 1..Len(headers) : Lower(headers[k][1]) = name
    THEN headers[CHOOSE k \in 1..Len(headers) : Lower(headers[k][1]) = name][2]
    ELSE default

\* _send_one without its "except requests.exceptions.Timeout" clause: the
\* Timeout reaches the caller like any other exception
SendOneLetsTimeoutEscape(task, param, value, resp, c) ==
    IF resp.kind = "response"
    THEN FuzzResult(task, param, value, resp.status_code, Len(resp.text),
                    HeaderOr(resp.headers, <<"content-type">>, <<>>),
                    _extract_preview(resp.text, c), NoValue)
    ELSE IF resp.kind = "RequestException"
    THEN FuzzResult(task, param, value, NoValue, 0, <<>>, <<>>, resp.message)
    ELSE Raised(task, resp.message)

\* _send_one(session, req_kwargs, param, value, timeout, preview_cfg) for
\* the outcome resp of session.request; response_time_ms (a clock reading)
\* is left out
_send_one(task, param, value, resp, c) ==
    IF resp.kind = "response"
    THEN FuzzResult(task, param, value, resp.status_code, Len(resp.text),
                    HeaderOr(resp.headers, <<"content-type">>, <<>>),
                    _extract_preview(resp.text, c), NoValue)
    ELSE IF resp.kind = "Timeout"
    THEN FuzzResult(task, param, value, NoValue, 0, <<>>, <<>>, <<"timeout">>)
    ELSE IF resp.kind = "RequestException"
    THEN FuzzResult(task, param, value, NoValue, 0, <<>>, <<>>, resp.message)
    ELSE Raised(task, resp.message)

\* dataclasses.asdict(item): the JSON object main() prints for a FuzzResult
asdict(item) ==
    [param |-> item.param, value |-> item.value, status_code |-> item.status_code,
     content_length |-> item.content_length, content_type |-> item.content_type,
     body_preview |-> item.body_preview, error |-> item.error,
     probe_encoding |-> item.probe_encoding]

-----------------------------------------------------------------------------
(* Encoding probes: run_fuzz.py lines 301-424.                             *)

\* xml.sax.saxutils.escape(s)
xml_escape(s) ==
    Replace(Replace(Replace(s, "&", <<"&", "a", "m", "p", ";">>),
                    ">", <<"&", "g", "t", ";">>),
            "<", <<"&", "l", "t", ";">>)

\* The XML declaration, the DOCTYPE with the external entity, and "<root>"
XxeProlog ==
    <<"<", "?", "x", "m", "l", " ", "v", "e", "r", "s", "i", "o", "n", "=",
      "\"", "1", ".", "0", "\"", "?", ">", "<", "!", "D", "O", "C", "T", "Y",
      "P", "E", " ", "x", " ", "[", "<", "!", "E", "N", "T", "I", "T", "Y",
      " ", "x", "x", "e", " ", "S", "Y", "S", "T", "E", "M", " ", "\"", "f",
      "i", "l", "e", ":", "/", "/", "/", "e", "t", "c", "/", "p", "a", "s",
      "s", "w", "d", "\"", ">", "]", ">", "<", "r", "o", "o", "t", ">">>

\* f"<{name}>{text}</{name}>"
XmlElement(name, text) ==
    <<"<">> \o name \o <<">">> \o text \o <<"<", "/">> \o name \o <<">">>

RECURSIVE XmlElements(_)
XmlElements(params) ==
    IF params = <<>> THEN <<>>
    ELSE XmlElement(Head(params).name, xml_escape(PyStr(Head(params).value)))
             \o XmlElements(Tail(params))

\* _build_xml_xxe_probe(body_params)
_build_xml_xxe_probe(body_params) ==
    IF SelectSeq(body_params, LAMBDA q : q.fuzzable) = <<>> THEN <<>>
    ELSE XxeProlog
           \o XmlElement(Head(SelectSeq(body_params, LAMBDA q : q.fuzzable)).name,
                         <<"&", "x", "x", "e", ";">>)
           \o XmlElements(Tail(SelectSeq(body_params, LAMBDA q : q.fuzzable)))
           \o <<"<", "/", "r", "o", "o", "t", ">">>

\* _build_form_body(body_params)
_build_form_body(body_params) ==
    urlencode(DictOf([k \in 1..Len(SelectSeq(body_params, LAMBDA q : q.fuzzable)) |->
        <<SelectSeq(body_params, LAMBDA q : q.fuzzable)[k].name,
          PyStr(SelectSeq(body_params, LAMBDA q : q.fuzzable)[k].value)>>]))

\* json.dumps(v) of a string: quotes, backslashes and line ends escaped
JsonString(s) ==
    <<"\"">> \o Replace(Replace(Replace(Replace(s, "\\", <<"\\", "\\">>),
                                        "\"", <<"\\", "\"">>),
                                NL, <<"\\", "n">>),
                        CR, <<"\\", "r">>)
             \o <<"\"">>

\* json.dumps(v) of a scalar
JsonScalar(v) ==
    CASE v.t = "str"  -> JsonString(v.s)
      [] v.t = "bool" -> IF v.b THEN <<"t", "r", "u", "e">> ELSE <<"f", "a", "l", "s", "e">>
      [] v.t = "null" -> <<"n", "u", "l", "l">>
      [] OTHER        -> PyStr(v)

\* ", ".join(f"{json.dumps(k)}: {json.dumps(v)}" for k, v in d.items())
RECURSIVE JsonItems(_)
JsonItems(d) ==
    IF d = <<>> THEN <<>>
    ELSE JsonString(Head(d)[1]) \o <<":", SP>> \o JsonScalar(Head(d)[2])
            \o (IF Tail(d) = <<>> THEN <<>> ELSE <<",", SP>> \o JsonItems(Tail(d)))

\* _build_json_body(body_params)
_build_json_body(body_params) ==
    <<"{">> \o JsonItems(ParamDict(SelectSeq(body_params, LAMBDA q : q.fuzzable)))
            \o <<"}">>

\* The probe list with the form probe built for a form manifest too
ProbeListWithOwnEncoding(m) ==
    (IF m.body_format # "xml" /\ _build_xml_xxe_probe(m.body_params) # <<>>
     THEN << <<"application/xml+xxe", "application/xml",
               _build_xml_xxe_probe(m.body_params)>> >>
     ELSE <<>>)
    \o << <<"application/x-www-form-urlencoded",
            "application/x-www-form-urlencoded",
            _build_form_body(m.body_params)>> >>
    \o (IF m.body_format \notin {"json", ""}
        THEN << <<"application/json", "application/json",
                  _build_json_body(m.body_params)>> >>
        ELSE <<>>)

\* Lines 348-363: the (label, content type, body) probes for a manifest, the
\* encoding the request already uses left out
ProbeList(m) ==
    (IF m.body_format # "xml" /\ _build_xml_xxe_probe(m.body_params) # <<>>
     THEN << <<"application/xml+xxe", "application/xml",
               _build_xml_xxe_probe(m.body_params)>> >>
     ELSE <<>>)
    \o (IF m.body_format # "form"
        THEN << <<"application/x-www-form-urlencoded",
                  "application/x-www-form-urlencoded",
                  _build_form_body(m.body_params)>> >>
        ELSE <<>>)
    \o (IF m.body_format \notin {"json", ""}
        THEN << <<"application/json", "application/json",
                  _build_json_body(m.body_params)>> >>
        ELSE <<>>)

\* Lines 378-383 and 393-396: the request of a probe
ProbeRequest(m, probe) ==
    [keys    |-> {"method", "url", "headers", "data"},
     method  |-> m.method,
     url     |-> m.url,
     headers |-> DictSet(WithoutContentType(HeaderDict(m)),
                         <<"Content-Type">>, <<probe[2]>>),
     json    |-> <<>>,
     data    |-> probe[3]]

\* Lines 397-414: the FuzzResult of probe number i for the outcome resp of
\* session.request, a response or a RequestException (Timeout is one)
ProbeResult(i, probe, resp, c) ==
    IF resp.kind = "response"
    THEN [FuzzResult(i, <<"Content-Type">>, <<probe[1]>>, resp.status_code,
                     Len(resp.text), HeaderOr(resp.headers, <<"content-type">>, <<>>),
                     _extract_preview(resp.text, c), NoValue)
            EXCEPT !.probe_encoding = <<probe[1]>>]
    ELSE [FuzzResult(i, <<"Content-Type">>, <<probe[1]>>, NoValue, 0, <<>>, <<>>,
                     resp.message)
            EXCEPT !.probe_encoding = <<probe[1]>>]

\* The runs of the model: manifests and corpus directories.
RunManifests ==
    { _build_manifest_from_parts("GET", Origin \o <<"/", "1", "?", "q", "=", "1">>,
                                 <<>>, "", <<>>),
      _build_manifest_from_parts("POST", Origin \o <<"/", "a">>,
          << <<<<"Content-Type">>, <<"json">>>> >>, "json",
          <<Param(<<"id">>, JInt(7), "integer"), Param(<<"q">>, JStr(<<"x">>), "string")>>),
      _build_manifest_from_parts("POST", Origin \o <<"/", "2">>,
          << <<<<"content-type">>, <<"form">>>>, <<<<"Cookie">>, <<"c">>>> >>, "form",
          <<Param(<<"id">>, JStr(<<"<", "x">>), "string")>>),
      _build_manifest_from_parts("GET", Origin \o <<"/", "a">>, <<>>, "", <<>>) }

CorpusDirs ==
    { <<>>,
      << <<<<"q">>, <<<<SP>>>>>> >>,
      << <<<<"path_", "0">>, <<<<"X">>>>>> >>,
      << <<<<"path_", "0">>, <<<<"X">>, <<>>>>>>, <<<<"q">>, <<<<"9">>>>>> >>,
      << <<<<"id">>, <<<<"8">>, <<"7">>>>>> >> }

DelaysMs == {0, 1000}

\* The command lines: whether the manifest file can be read and parsed, the
\* --param allow-list (empty when the option is absent), --dry-run and
\* --probe-encodings
Args ==
    [loadable : BOOLEAN, params : {<<>>, << <<"q">> >>},
     dry_run : BOOLEAN, probe_encodings : BOOLEAN]

\* The task at the head of the queue is the None sentinel
IsSentinel(item) == Len(item) = 1

Workers == 1..threads

InitRun ==
    /\ PureIdle
    /\ body = <<>> /\ preview = NoValue /\ window = NoValue
    /\ cfg = PreviewConfig(DEFAULT_PREVIEW_LENGTH, 0, NoValue)
    /\ manifest \in RunManifests
    /\ corpus_dir \in CorpusDirs
    /\ base_request = NoValue
    /\ task_q = <<>>
    /\ fuzz_param = NoValue /\ fuzz_value = NoValue /\ req = NoValue
    /\ args \in Args
    /\ probes = <<>>
    /\ threads \in 0..MaxThreads
    /\ delay_ms \in DelaysMs
    /\ result_q = <<>>
    /\ unfinished = 0
    /\ wpc = [w \in Workers |-> "new"]
    /\ witem = [w \in Workers |-> NoValue]
    /\ completed = 0
    /\ total = 0
    /\ stdout = <<>>
    /\ stderr = <<>>
    /\ taken = 0
    /\ wtask = [w \in Workers |-> 0]
    /\ wire = <<>>
    /\ collected = <<>>
    /\ pc = "setup"

RECURSIVE SumLen(_)
SumLen(corpus) == IF corpus = <<>> THEN 0 ELSE Len(corpus[1][2]) + SumLen(Tail(corpus))

\* Lines 569-576: no fuzzable parameter; an error object on stdout, exit 1
SetupNoParams ==
    /\ pc = "setup"
    /\ args.loadable /\ ~args.probe_encodings
    /\ _get_fuzzable_params(manifest, args.params) = <<>>
    /\ stdout' = Append(stdout, [error |-> <<"No fuzzable parameters found in manifest.">>])
    /\ pc' = "exit_1"
    /\ UNCHANGED <<pureVars, previewVars, buildVars, args, probes, threads, delay_ms, result_q, unfinished,
                   wpc, witem, completed, total, stderr, taken, wtask, wire, collected>>

\* The corpus main() loads for the manifest from the corpus directory
Corpus == _load_corpus(corpus_dir, _get_fuzzable_params(manifest, args.params))

\* main() loading the corpus before it looks at --probe-encodings
SetupNoCorpusInProbeMode ==
    /\ pc = "setup"
    /\ args.loadable
    /\ _get_fuzzable_params(manifest, args.params) # <<>>
    /\ Corpus = <<>>
    /\ stderr' = stderr \o CorpusWarnings(corpus_dir,
                                          _get_fuzzable_params(manifest, args.params))
    /\ stdout' = Append(stdout, [error |-> <<"No corpus files found.">>])
    /\ pc' = "exit_1"
    /\ UNCHANGED <<pureVars, previewVars, buildVars, args, probes, threads, delay_ms, result_q,
                   unfinished, wpc, witem, completed, total, taken, wtask, wire,
                   collected>>

\* Lines 578-585: no corpus file with values; _load_corpus's warnings on
\* stderr, an error object on stdout, exit 1
SetupNoCorpus ==
    /\ pc = "setup"
    /\ args.loadable /\ ~args.probe_encodings
    /\ _get_fuzzable_params(manifest, args.params) # <<>>
    /\ Corpus = <<>>
    /\ stderr' = stderr \o CorpusWarnings(corpus_dir,
                                          _get_fuzzable_params(manifest, args.params))
    /\ stdout' = Append(stdout, [error |-> <<"No corpus files found.">>])
    /\ pc' = "exit_1"
    /\ UNCHANGED <<pureVars, previewVars, buildVars, args, probes, threads, delay_ms, result_q, unfinished,
                   wpc, witem, completed, total, taken, wtask, wire, collected>>

\* main() enqueueing the tasks whether or not --dry-run was given
SetupIgnoringDryRun ==
    /\ pc = "setup"
    /\ args.loadable /\ ~args.probe_encodings
    /\ _get_fuzzable_params(manifest, args.params) # <<>>
    /\ Corpus # <<>>
    /\ base_request' = _build_base_request(manifest)
    /\ total' = SumLen(Corpus)
    /\ stderr' = (stderr \o CorpusWarnings(corpus_dir,
                                           _get_fuzzable_params(manifest, args.params)))
                    \o << <<"Starting fuzz", StrOfNat(SumLen(Corpus))>> >>
    /\ task_q' = TasksOf(Corpus) \o [w \in Workers |-> NoValue]
    /\ unfinished' = SumLen(Corpus) + threads
    /\ wire' = [t \in 1..SumLen(Corpus) |-> <<>>]
    /\ pc' = "start"
    /\ UNCHANGED <<pureVars, previewVars, manifest, corpus_dir, fuzz_param, fuzz_value, req,
                   args, probes, threads, delay_ms, result_q, wpc, witem, completed,
                   stdout, taken, wtask, collected>>

\* Lines 569-612: the corpus is loaded, the base request built, the start
\* line printed, every task enqueued in corpus order and then one None
\* sentinel per worker
Setup ==
    /\ pc = "setup"
    /\ args.loadable /\ ~args.probe_encodings /\ ~args.dry_run
    /\ _get_fuzzable_params(manifest, args.params) # <<>>
    /\ Corpus # <<>>
    /\ base_request' = _build_base_request(manifest)
    /\ total' = SumLen(Corpus)
    /\ stderr' = (stderr \o CorpusWarnings(corpus_dir,
                                           _get_fuzzable_params(manifest, args.params)))
                    \o << <<"Starting fuzz", StrOfNat(SumLen(Corpus))>> >>
    /\ task_q' = TasksOf(Corpus) \o [w \in Workers |-> NoValue]
    /\ unfinished' = SumLen(Corpus) + threads
    /\ wire' = [t \in 1..SumLen(Corpus) |-> <<>>]
    /\ pc' = "start"
    /\ UNCHANGED <<pureVars, previewVars, manifest, corpus_dir, fuzz_param, fuzz_value, req,
                   args, probes, threads, delay_ms, result_q, wpc, witem, completed, stdout,
                   taken, wtask, collected>>

\* Lines 614-626: the sessions are made and every worker thread is started
StartWorkers ==
    /\ pc = "start"
    /\ wpc' = [w \in Workers |-> "get"]
    /\ pc' = "collect"
    /\ UNCHANGED <<pureVars, previewVars, buildVars, args, probes, threads, delay_ms, result_q, unfinished,
                   witem, completed, total, stdout, stderr, taken, wtask, wire,
                   collected>>

\* The process has not ended: daemon workers run only while main() does
Alive == pc \notin {"done", "exit_1", "crashed"}

\* _worker over a last-in-first-out task queue: task_queue.get() hands out
\* the item that was put last
WorkerGetLifo(w) ==
    /\ Alive
    /\ wpc[w] = "get"
    /\ task_q # <<>>
    /\ task_q' = SubSeq(task_q, 1, Len(task_q) - 1)
    /\ witem' = [witem EXCEPT ![w] = task_q[Len(task_q)]]
    /\ IF IsSentinel(task_q[Len(task_q)])
       THEN /\ wpc' = [wpc EXCEPT ![w] = "exit"]
            /\ unfinished' = unfinished - 1
            /\ UNCHANGED <<taken, wtask>>
       ELSE /\ wpc' = [wpc EXCEPT ![w] = "send"]
            /\ taken' = taken + 1
            /\ wtask' = [wtask EXCEPT ![w] = taken + 1]
            /\ UNCHANGED unfinished
    /\ UNCHANGED <<pureVars, previewVars, manifest, corpus_dir, base_request, fuzz_param,
                   fuzz_value, req, args, probes, threads, delay_ms, result_q, completed, total,
                   stdout, stderr, wire, collected, pc>>

\* _worker, lines 473-477: task_queue.get(); on None, task_done() and break
WorkerGet(w) ==
    /\ Alive
    /\ wpc[w] = "get"
    /\ task_q # <<>>
    /\ task_q' = Tail(task_q)
    /\ witem' = [witem EXCEPT ![w] = Head(task_q)]
    /\ IF IsSentinel(Head(task_q))
       THEN /\ wpc' = [wpc EXCEPT ![w] = "exit"]
            /\ unfinished' = unfinished - 1
            /\ UNCHANGED <<taken, wtask>>
       ELSE /\ wpc' = [wpc EXCEPT ![w] = "send"]
            /\ taken' = taken + 1
            /\ wtask' = [wtask EXCEPT ![w] = taken + 1]
            /\ UNCHANGED unfinished
    /\ UNCHANGED <<pureVars, previewVars, manifest, corpus_dir, base_request, fuzz_param,
                   fuzz_value, req, args, probes, threads, delay_ms, result_q, completed, total,
                   stdout, stderr, wire, collected, pc>>

\* _worker without its "except Exception" clause: an exception of the task
\* ends the thread, with nothing put and no task_done()
WorkerDiesOnException(w) ==
    /\ Alive
    /\ wpc[w] = "send"
    /\ \E resp \in Responses :
          /\ wire' = [wire EXCEPT ![wtask[w]] =
                Append(@, <<_build_fuzz_request(base_request, witem[w][1], witem[w][2],
                                                manifest), resp>>)]
          /\ IF _send_one(wtask[w], witem[w][1], witem[w][2], resp, cfg).class = "Exception"
             THEN /\ wpc' = [wpc EXCEPT ![w] = "exit"]
                  /\ UNCHANGED <<result_q, unfinished>>
             ELSE /\ result_q' = Append(result_q,
                        _send_one(wtask[w], witem[w][1], witem[w][2], resp, cfg))
                  /\ unfinished' = unfinished - 1
                  /\ wpc' = [wpc EXCEPT ![w] = IF delay_ms > 0 THEN "sleep" ELSE "get"]
    /\ base_request' = BaseAfterFuzzRequest(base_request, witem[w][1], witem[w][2],
                                             manifest)
    /\ UNCHANGED <<pureVars, previewVars, manifest, corpus_dir, task_q, fuzz_param,
                   fuzz_value, req, args, probes, threads, delay_ms, witem, completed,
                   total, stdout, stderr, taken, wtask, collected, pc>>

\* _worker, lines 478-488: the request is built and sent, the FuzzResult
\* _send_one returned or the exception it raised is put on the result
\* queue, task_done() is called, and the worker sleeps when delay_ms > 0
WorkerSend(w) ==
    /\ Alive
    /\ wpc[w] = "send"
    /\ \E resp \in Responses :
          /\ wire' = [wire EXCEPT ![wtask[w]] =
                Append(@, <<_build_fuzz_request(base_request, witem[w][1], witem[w][2],
                                                manifest), resp>>)]
          /\ result_q' = Append(result_q,
                _send_one(wtask[w], witem[w][1], witem[w][2], resp, cfg))
    /\ base_request' = BaseAfterFuzzRequest(base_request, witem[w][1], witem[w][2],
                                             manifest)
    /\ unfinished' = unfinished - 1
    /\ wpc' = [wpc EXCEPT ![w] = IF delay_ms > 0 THEN "sleep" ELSE "get"]
    /\ UNCHANGED <<pureVars, previewVars, manifest, corpus_dir, task_q, fuzz_param,
                   fuzz_value, req, args, probes, threads, delay_ms, witem, completed,
                   total, stdout, stderr, taken, wtask, collected, pc>>

\* time.sleep(delay_ms / 1000.0) returns
WorkerWake(w) ==
    /\ Alive
    /\ wpc[w] = "sleep"
    /\ wpc' = [wpc EXCEPT ![w] = "get"]
    /\ UNCHANGED <<pureVars, previewVars, buildVars, args, probes, threads, delay_ms, result_q, unfinished,
                   witem, completed, total, stdout, stderr, taken, wtask, wire,
                   collected, pc>>

\* The progress line of lines 642-643
ProgressLine(n) ==
    IF n % 50 = 0 THEN << <<"progress", StrOfNat(n)>> >> ELSE <<>>

\* The collector counting only the results it prints: "completed += 1"
\* moved into the else branch
CollectorGetCountsResultsOnly ==
    /\ pc = "collect"
    /\ result_q # <<>>
    /\ result_q' = Tail(result_q)
    /\ collected' = Append(collected, Head(result_q))
    /\ IF Head(result_q).class = "Exception"
       THEN /\ stderr' = stderr \o << <<"[error] Worker exception", Head(result_q).error>> >>
            /\ UNCHANGED <<stdout, completed, pc>>
       ELSE /\ stdout' = Append(stdout, asdict(Head(result_q)))
            /\ stderr' = stderr \o ProgressLine(completed + 1)
            /\ completed' = completed + 1
            /\ pc' = IF completed + 1 < total THEN "collect" ELSE "join"
    /\ UNCHANGED <<pureVars, previewVars, buildVars, args, probes, threads, delay_ms, unfinished, wpc, witem,
                   total, taken, wtask, wire>>

\* main(), lines 629-643, when result_q.get returns an item: an exception
\* goes to stderr, a FuzzResult to stdout as one JSON object; completed += 1
CollectorGet ==
    /\ pc = "collect"
    /\ result_q # <<>>
    /\ result_q' = Tail(result_q)
    /\ collected' = Append(collected, Head(result_q))
    /\ IF Head(result_q).class = "Exception"
       THEN /\ stderr' = (stderr \o << <<"[error] Worker exception", Head(result_q).error>> >>)
                            \o ProgressLine(completed + 1)
            /\ UNCHANGED stdout
       ELSE /\ stdout' = Append(stdout, asdict(Head(result_q)))
            /\ stderr' = stderr \o ProgressLine(completed + 1)
    /\ completed' = completed + 1
    /\ pc' = IF completed + 1 < total THEN "collect" ELSE "join"
    /\ UNCHANGED <<pureVars, previewVars, buildVars, args, probes, threads, delay_ms, unfinished, wpc, witem,
                   total, taken, wtask, wire>>

\* The collector leaving its loop on queue.Empty without printing anything
CollectorTimeoutSilent ==
    /\ pc = "collect"
    /\ result_q = <<>>
    /\ pc' = "join"
    /\ UNCHANGED <<pureVars, previewVars, buildVars, runVars>>

\* main(), lines 632-634, when result_q.get(timeout=args.timeout + 5) raises
\* queue.Empty: the warning is printed and the loop left
CollectorTimeout ==
    /\ pc = "collect"
    /\ result_q = <<>>
    /\ stderr' = Append(stderr, <<"[warn] Result queue timed out waiting for worker", <<>>>>)
    /\ pc' = "join"
    /\ UNCHANGED <<pureVars, previewVars, buildVars, args, probes, threads, delay_ms, result_q, unfinished,
                   wpc, witem, completed, total, stdout, taken, wtask, wire,
                   collected>>

\* main() joining the workers with t.join(), without a timeout
FinishJoinsUnbounded ==
    /\ pc = "join"
    /\ \A w \in Workers : wpc[w] = "exit"
    /\ stderr' = Append(stderr, <<"Done", StrOfNat(completed)>>)
    /\ pc' = "done"
    /\ UNCHANGED <<pureVars, previewVars, buildVars, args, probes, threads, delay_ms, result_q,
                   unfinished, wpc, witem, completed, total, stdout, taken, wtask, wire,
                   collected>>

\* main(), lines 645-651: every worker is joined for at most 5 seconds, the
\* sessions are closed and the Done line is printed; the process ends
Finish ==
    /\ pc = "join"
    /\ stderr' = Append(stderr, <<"Done", StrOfNat(completed)>>)
    /\ pc' = "done"
    /\ UNCHANGED <<pureVars, previewVars, buildVars, args, probes, threads, delay_ms, result_q, unfinished,
                   wpc, witem, completed, total, stdout, taken, wtask, wire,
                   collected>>

\* _load_manifest exiting with status 1 without printing the error object
LoadManifestFailsSilently ==
    /\ pc = "setup"
    /\ ~args.loadable
    /\ pc' = "exit_1"
    /\ UNCHANGED <<pureVars, previewVars, buildVars, runVars>>

\* _load_manifest, lines 128-134, when open() raises OSError or json.load
\* raises JSONDecodeError: an error object on stdout, exit 1
LoadManifestFails ==
    /\ pc = "setup"
    /\ ~args.loadable
    /\ stdout' = Append(stdout, [error |-> <<"Cannot load manifest">>])
    /\ pc' = "exit_1"
    /\ UNCHANGED <<pureVars, previewVars, buildVars, args, probes, threads, delay_ms, result_q,
                   unfinished, wpc, witem, completed, total, stderr, taken, wtask,
                   wire, collected>>

\* _print_dry_run(corpus), lines 491-505: the count line, the header, the
\* rule, and one row per (param, value), a value of more than 50 characters
\* cut to 47 and "..."; the padding of the columns is left out
_print_dry_run(corpus) ==
    IF TasksOf(corpus) = <<>>
    THEN << [line |-> <<"No fuzz tasks">>] >>
    ELSE << [line |-> <<"Dry run", StrOfNat(Len(TasksOf(corpus)))>>],
            [line |-> <<"Parameter", "Value">>],
            [line |-> <<"-">>] >>
         \o [k \in 1..Len(TasksOf(corpus)) |->
               [line |-> <<TasksOf(corpus)[k][1],
                           IF Len(TasksOf(corpus)[k][2]) <= 50
                           THEN TasksOf(corpus)[k][2]
                           ELSE Slice(TasksOf(corpus)[k][2], 0, 47) \o <<".", ".", ".">>>>]]

\* main(), lines 569-589, with --dry-run: the corpus is loaded, the planned
\* requests are listed on stdout and main returns
DryRun ==
    /\ pc = "setup"
    /\ args.loadable /\ ~args.probe_encodings /\ args.dry_run
    /\ _get_fuzzable_params(manifest, args.params) # <<>>
    /\ Corpus # <<>>
    /\ stderr' = stderr \o CorpusWarnings(corpus_dir,
                                          _get_fuzzable_params(manifest, args.params))
    /\ stdout' = stdout \o _print_dry_run(Corpus)
    /\ pc' = "done"
    /\ UNCHANGED <<pureVars, previewVars, buildVars, args, probes, threads, delay_ms, result_q,
                   unfinished, wpc, witem, completed, total, taken, wtask, wire,
                   collected>>

\* _run_encoding_probes, lines 340-367: no fuzzable body parameter, or no
\* probe to send; an error object on stdout, exit 1
ProbesFatal ==
    /\ pc = "setup"
    /\ args.loadable /\ args.probe_encodings
    /\ \/ SelectSeq(manifest.body_params, LAMBDA q : q.fuzzable) = <<>>
       \/ ProbeList(manifest) = <<>>
    /\ stdout' = Append(stdout,
          [error |-> IF SelectSeq(manifest.body_params, LAMBDA q : q.fuzzable) = <<>>
                     THEN <<"No fuzzable body params">>
                     ELSE <<"No alternative encodings to probe for this body_format.">>])
    /\ pc' = "exit_1"
    /\ UNCHANGED <<pureVars, previewVars, buildVars, args, probes, threads, delay_ms, result_q,
                   unfinished, wpc, witem, completed, total, stderr, taken, wtask,
                   wire, collected>>

\* _run_encoding_probes, lines 369-376, with --dry-run: the planned probes
\* are listed on stdout, each with the first 100 characters of its body and
\* "..." when it has more, and the function returns
ProbesDryRun ==
    /\ pc = "setup"
    /\ args.loadable /\ args.probe_encodings /\ args.dry_run
    /\ SelectSeq(manifest.body_params, LAMBDA q : q.fuzzable) # <<>>
    /\ ProbeList(manifest) # <<>>
    /\ stdout' = (Append(stdout, [line |-> <<"Encoding probes planned",
                                            StrOfNat(Len(ProbeList(manifest)))>>]))
                    \o [k \in 1..Len(ProbeList(manifest)) |->
                          [line |-> <<ProbeList(manifest)[k][1],
                                      IF Len(ProbeList(manifest)[k][3]) > 100
                                      THEN Slice(ProbeList(manifest)[k][3], 0, 100)
                                               \o <<".", ".", ".">>
                                      ELSE ProbeList(manifest)[k][3]>>]]
    /\ pc' = "done"
    /\ UNCHANGED <<pureVars, previewVars, buildVars, args, probes, threads, delay_ms, result_q,
                   unfinished, wpc, witem, completed, total, stderr, taken, wtask,
                   wire, collected>>

\* _run_encoding_probes, lines 378-391: the probes are built, the start line
\* is printed and the session is made
ProbesStart ==
    /\ pc = "setup"
    /\ args.loadable /\ args.probe_encodings /\ ~args.dry_run
    /\ SelectSeq(manifest.body_params, LAMBDA q : q.fuzzable) # <<>>
    /\ ProbeList(manifest) # <<>>
    /\ probes' = ProbeList(manifest)
    /\ wire' = [t \in 1..Len(ProbeList(manifest)) |-> <<>>]
    /\ stderr' = Append(stderr, <<"[encoding probes] Sending",
                                  StrOfNat(Len(ProbeList(manifest)))>>)
    /\ pc' = "probe"
    /\ UNCHANGED <<pureVars, previewVars, buildVars, args, threads, delay_ms, result_q,
                   unfinished, wpc, witem, completed, total, stdout, taken, wtask,
                   collected>>

\* _run_encoding_probes, lines 393-419, one turn of the loop: the probe is
\* sent and its FuzzResult printed as one JSON object.  An exception that
\* is no RequestException leaves the loop: the session is closed and the
\* process ends with a traceback.  The probe at the head of probes has the
\* number Len(wire) - Len(probes) + 1
ProbeSend ==
    /\ pc = "probe"
    /\ probes # <<>>
    /\ \E resp \in Responses :
          /\ wire' = [wire EXCEPT ![(Len(wire) - Len(probes) + 1)] =
                        Append(@, <<ProbeRequest(manifest, Head(probes)), resp>>)]
          /\ IF resp.kind = "Exception"
             THEN /\ stderr' = Append(stderr, <<"Traceback", resp.message>>)
                  /\ pc' = "crashed"
                  /\ UNCHANGED <<stdout, collected, probes>>
             ELSE /\ stdout' = Append(stdout,
                        asdict(ProbeResult((Len(wire) - Len(probes) + 1), Head(probes), resp, cfg)))
                  /\ collected' = Append(collected,
                        ProbeResult((Len(wire) - Len(probes) + 1), Head(probes), resp, cfg))
                  /\ probes' = Tail(probes)
                  /\ UNCHANGED <<stderr, pc>>
    /\ UNCHANGED <<pureVars, previewVars, buildVars, args, threads, delay_ms, result_q,
                   unfinished, wpc, witem, completed, total, taken, wtask>>

\* _run_encoding_probes, lines 420-423: the session is closed and the Done
\* line printed; main returns
ProbesDone ==
    /\ pc = "probe"
    /\ probes = <<>>
    /\ stderr' = Append(stderr, <<"Done", StrOfNat(Len(wire))>>)
    /\ pc' = "done"
    /\ UNCHANGED <<pureVars, previewVars, buildVars, args, probes, threads, delay_ms, result_q,
                   unfinished, wpc, witem, completed, total, stdout, taken, wtask,
                   wire, collected>>

\* main() with --probe-encodings, lines 562-567
ProbeStep == ProbesFatal \/ ProbesDryRun \/ ProbesStart \/ ProbeSend \/ ProbesDone

\* The steps of main() from the start of the workers on
MainLoop == StartWorkers \/ CollectorGet \/ CollectorTimeout \/ Finish

WorkerStep == \E w \in Workers : WorkerGet(w) \/ WorkerSend(w) \/ WorkerWake(w)

Next ==
    \/ LoadManifestFails
    \/ SetupNoParams \/ SetupNoCorpus \/ DryRun \/ Setup
    \/ MainLoop \/ WorkerStep
    \/ ProbeStep

Spec == InitRun /\ [][Next]_vars

\* Once the tasks are enqueued the main thread always takes its next step:
\* every call it blocks in (result_q.get and Thread.join) has a timeout.
\* Nothing is assumed of the workers, whose requests may take any time.
LiveSpec == Spec /\ WF_vars(MainLoop)

\* The steps the thread of worker w takes on its own: task_queue.get() with
\* an item queued, and the end of its sleep
WorkerScheduled(w) == w \in Workers /\ (WorkerGet(w) \/ WorkerWake(w))

\* Worker w is in the request of its task
InRequest(w) == w \in Workers /\ Alive /\ wpc[w] = "send"

\* The request of worker w's task has returned or raised
RequestReturned(w) == w \in Workers /\ wpc[w] = "send" /\ wpc'[w] # "send"

\* Every request of worker w returns while the process lives: weak fairness
\* of the request step, written out (the worker is infinitely often not in a
\* request, or requests return infinitely often)
RequestsReturn(w) == []<>(~InRequest(w)) \/ []<><<RequestReturned(w)>>_vars

\* A run in which every worker thread is scheduled and every request and
\* every sleep returns, while the process lives.  Nothing is assumed of the
\* main thread, which ends the process when its loop and its joins are over.
WorkerLiveSpec ==
    Spec /\ \A w \in 1..MaxThreads : WF_vars(WorkerScheduled(w)) /\ RequestsReturn(w)

-----------------------------------------------------------------------------
(* Single calls of _coerce_value, _is_fuzzable_path_segment,               *)
(* _build_fuzz_request and _classify_header.                               *)

\* The fuzz values handed to _coerce_value, and the types of a body field
CoerceValues ==
    { <<"null">>, <<"true">>, <<"false">>, <<"yes">>, <<"no">>, <<"on">>, <<"off">>,
      <<"NaN">>, <<"hello">>, <<>>, <<"1">>, <<"0">>, <<"4", "2">>, <<"-", "7">>,
      <<"+", "5">>, <<SP, "1", "2">>, <<"1", "e", "5">>, <<"1", ".", "5">>,
      <<"1", ".", "0">>, <<".", "5">>, <<"5", ".">>, <<"-", "0", ".", "5">>,
      <<"1", ".", "2", ".", "3">>, <<".">> }
FieldTypes == {"string", "integer", "float", "boolean", "null"}

\* The UUID of the example, 550e8400-e29b-41d4-a716-446655440000
ExampleUuid ==
    <<"5", "5", "0", "e", "8", "4", "0", "0", "-", "e", "2", "9", "b", "-",
      "4", "1", "d", "4", "-", "a", "7", "1", "6", "-",
      "4", "4", "6", "6", "5", "5", "4", "4", "0", "0", "0", "0">>

\* The path segments handed to _is_fuzzable_path_segment: the example UUID,
\* the UUID with one position changed, shortened and lengthened, runs of one
\* character around the lengths 24 and 36, and a few words
MaxRun == 37
SegmentValues ==
    {ExampleUuid, <<"u", "p", "l", "o", "a", "d", "s">>, <<"1", "2", "a">>,
     <<"a", "1">>, <<"1", SP>>, <<"1", NL>>, <<"-">>}
    \cup {[ExampleUuid EXCEPT ![i] = c] : i \in 1..36, c \in {"g", "-", "0", "E"}}
    \cup {SubSeq(ExampleUuid, 1, 35), Append(ExampleUuid, "0"), Tail(ExampleUuid)}
    \cup {[i \in 1..n |-> c] : n \in {0, 1, 23, 24, 25, 35, 36, MaxRun},
                               c \in {"1", "a", "f", "g", "A", "-"}}

\* The manifests and the parameter ids _build_fuzz_request is called with:
\* ids of the manifest and ids that name nothing in it.  The last manifest
\* has body parameters under a body_format that is neither json nor form.
CallManifests ==
    { _build_manifest_from_parts("GET", Origin \o <<"/", "1", "?", "q", "=", "1">>,
                                 << <<<<"Cookie">>, <<"c">>>> >>, "", <<>>),
      _build_manifest_from_parts("POST", Origin \o <<"/", "a", "/", "2">>,
          << <<<<"Content-Type">>, <<"json">>>> >>, "json",
          <<Param(<<"id">>, JInt(7), "integer"), Param(<<"q">>, JStr(<<"x">>), "string")>>),
      _build_manifest_from_parts("POST", Origin \o <<"/", "a">>,
          << <<<<"Content-Type">>, <<"form">>>> >>, "form",
          <<Param(<<"id">>, JStr(<<"2">>), "string")>>),
      _build_manifest_from_parts("POST", Origin \o <<"/", "a">>,
          << <<<<"Content-Type">>, <<"xml">>>> >>, "xml",
          <<Param(<<"id">>, JStr(<<"2">>), "string")>>) }
CallParams ==
    { <<"id">>, <<"q">>, <<"z">>, <<"path_">>, <<"path_", "0">>, <<"path_", "1">>,
      <<"path_", "5">>, <<"path_", "x">> }

\* The header names handed to _classify_header: the sensitive names in
\* several letter cases, names that differ from one by a character, other
\* names, and names held as one atom
HeaderNames ==
    { <<"c", "o", "o", "k", "i", "e">>,
      <<"C", "o", "o", "k", "i", "e">>,
      <<"C", "O", "O", "K", "I", "E">>,
      <<"c", "O", "o", "K", "i", "E">>,
      <<"c", "o", "o", "k", "i", "e", "s">>,
      <<"c", "o", "o", "k", "i">>,
      <<"C", "o", "o", "k", "i", "e", " ">>,
      <<"x", "-", "a", "p", "i", "-", "k", "e", "y">>,
      <<"X", "-", "A", "P", "I", "-", "K", "e", "y">>,
      <<"A", "p", "i", "-", "K", "e", "y">>,
      <<"A", "P", "I", "-", "K", "E", "Y">>,
      <<"a", "u", "t", "h", "o", "r", "i", "z", "a", "t", "i", "o", "n">>,
      <<"A", "u", "t", "h", "o", "r", "i", "z", "a", "t", "i", "o", "n">>,
      <<"X", "-", "C", "s", "r", "f", "-", "T", "o", "k", "e", "n">>,
      <<"X", "-", "X", "S", "R", "F", "-", "T", "O", "K", "E", "N">>,
      <<"x", "-", "a", "u", "t", "h", "-", "t", "o", "k", "e", "n">>,
      <<"X", "-", "A", "u", "t", "h", "-", "T", "o", "k", "e", "n">>,
      <<"X", "-", "A", "c", "c", "e", "s", "s", "-", "T", "o", "k", "e", "n">>,
      <<"A", "c", "c", "e", "p", "t">>,
      <<"U", "s", "e", "r", "-", "A", "g", "e", "n", "t">>,
      <<"X", "-", "A", "p", "i">>,
      <<"S", "e", "t", "-", "C", "o", "o", "k", "i", "e">>,
      <<"P", "r", "o", "x", "y", "-", "A", "u", "t", "h", "o", "r", "i", "z", "a", "t", "i", "o", "n">>,
      <<>>,
      <<"Cookie">>, <<"AUTHORIZATION">>, <<"X-Api-Key">>, <<"Content-Type">>, <<"Accept">> }

Calls ==
    {[fn |-> "_classify_header", value |-> v, type |-> "", param |-> <<>>]
        : v \in HeaderNames}
    \cup {[fn |-> "_coerce_value", value |-> v, type |-> t, param |-> <<>>]
        : v \in CoerceValues, t \in FieldTypes}
    \cup {[fn |-> "_is_fuzzable_path_segment", value |-> v, type |-> "", param |-> <<>>]
            : v \in SegmentValues}
    \cup {[fn |-> "_build_fuzz_request", value |-> <<"X">>, type |-> "", param |-> q]
            : q \in CallParams}

InitPure ==
    /\ PreviewIdle
    /\ RunIdle
    /\ call \in Calls
    /\ manifest \in (IF call.fn = "_build_fuzz_request" THEN CallManifests ELSE {NoValue})
    /\ corpus_dir = <<>> /\ base_request = NoValue /\ task_q = <<>>
    /\ fuzz_param = NoValue /\ fuzz_value = NoValue /\ req = NoValue
    /\ result = NoValue
    /\ pc = "call"

\* json_body[param] = _coerce_value(value, original_type)   (run_fuzz.py line 266)
CoerceValue ==
    /\ pc = "call"
    /\ call.fn = "_coerce_value"
    /\ result' = _coerce_value(call.value, call.type)
    /\ pc' = "returned"
    /\ UNCHANGED <<call, previewVars, buildVars, runVars>>

\* fuzzable=_is_fuzzable_path_segment(part)   (parse_input.py line 127)
ClassifySegment ==
    /\ pc = "call"
    /\ call.fn = "_is_fuzzable_path_segment"
    /\ result' = _is_fuzzable_path_segment(call.value)
    /\ pc' = "returned"
    /\ UNCHANGED <<call, previewVars, buildVars, runVars>>

\* base = _build_base_request(manifest); _build_fuzz_request(base, param,
\* value, manifest)   (run_fuzz.py lines 594 and 480; test_run_fuzz.py)
BuildFuzzRequest ==
    /\ pc = "call"
    /\ call.fn = "_build_fuzz_request"
    /\ base_request' = BaseAfterFuzzRequest(_build_base_request(manifest), call.param,
                                             call.value, manifest)
    /\ result' = _build_fuzz_request(_build_base_request(manifest), call.param,
                                     call.value, manifest)
    /\ pc' = "returned"
    /\ UNCHANGED <<call, previewVars, manifest, corpus_dir, task_q, fuzz_param,
                   fuzz_value, req, runVars>>

\* headers = [_classify_header(k, v) for k, v in headers_raw]
\* (parse_input.py line 204, parse_openapi.py lines 274 and 278)
ClassifyHeader ==
    /\ pc = "call"
    /\ call.fn = "_classify_header"
    /\ result' = _classify_header(call.value, <<"v">>)
    /\ pc' = "returned"
    /\ UNCHANGED <<call, previewVars, buildVars, runVars>>

NextPure == CoerceValue \/ ClassifySegment \/ BuildFuzzRequest \/ ClassifyHeader

SpecPure == InitPure /\ [][NextPure]_vars

-----------------------------------------------------------------------------
(* Claims about the corpus fuzz run, checked under Spec and LiveSpec.      *)

Tasks == 1..total

\* Every item produced so far: those consumed and those still queued.
Items == collected \o result_q

ItemsOf(t) == SelectSeq(Items, LAMBDA item : item.task = t)
ConsumedOf(t) == SelectSeq(collected, LAMBDA item : item.task = t)

TimeoutWarned ==
    \E k \in 1..Len(stderr) :
        stderr[k][1] = "[warn] Result queue timed out waiting for worker"

AllConsumedOnce == \A t \in Tasks : Len(ConsumedOf(t)) = 1

\* C2: once main has enqueued the tasks, the run eventually ends with
\* exactly one result item of every task consumed by the collector, or with
\* the queue-timeout warning printed; no task ever has two items, and no run
\* ends with a task without a consumed result and without the warning.
C2_TaskYieldsOneResultOrWarning ==
    /\ [](\A t \in Tasks : Len(ItemsOf(t)) <= 1)
    /\ [](pc = "done" => (TimeoutWarned \/ AllConsumedOnce))
    /\ (pc = "start") ~> (pc = "done" /\ (TimeoutWarned \/ AllConsumedOnce))

\* A run of two workers that ended with every one of its tasks consumed once
\* and no warning.
C2_Witness ==
    /\ pc = "done"
    /\ threads >= 2
    /\ total >= 2
    /\ ~TimeoutWarned
    /\ AllConsumedOnce

IsTransportError(resp) == resp.kind \in {"Timeout", "RequestException"}

\* C3: a task whose request failed with a timeout or another transport error
\* has exactly one item, a FuzzResult with status_code None and a non-empty
\* error; the task was sent once; a worker leaves its loop only on a
\* sentinel; and the run stops before all results only on the collector's
\* timeout.
C3_TransportErrorReported ==
    /\ \A t \in 1..Len(wire) :
          (\E k \in 1..Len(wire[t]) : IsTransportError(wire[t][k][2])) =>
              /\ Len(wire[t]) = 1
              /\ Len(ItemsOf(t)) = 1
              /\ ItemsOf(t)[1].class = "FuzzResult"
              /\ ItemsOf(t)[1].status_code = NoValue
              /\ ItemsOf(t)[1].error # NoValue
              /\ ItemsOf(t)[1].error # <<>>
    /\ \A w \in 1..Len(wpc) : wpc[w] = "exit" => IsSentinel(witem[w])
    /\ (pc \in {"join", "done"} /\ completed < total) => TimeoutWarned

\* One worker, whose first request timed out, went on to send the second
\* task, and the run ended with every result collected.
C3_Witness ==
    /\ pc = "done"
    /\ threads = 1
    /\ total >= 2
    /\ completed = total
    /\ wire[1][1][2].kind = "Timeout"
    /\ Len(wire[2]) = 1
    /\ collected[1].status_code = NoValue
    /\ collected[1].error = <<"timeout">>

-----------------------------------------------------------------------------
(* Claims about the modes of a run, checked under Spec.                    *)

\* The fuzzable parameters main() asks a corpus for
Requested == _get_fuzzable_params(manifest, args.params)
RequestedSet == {Requested[k] : k \in 1..Len(Requested)}

\* The parameters with, and without, a corpus line that is not blank
WithCorpus == {p \in RequestedSet : CorpusValues(corpus_dir, p) # <<>>}
Skipped == RequestedSet \ WithCorpus

RECURSIVE CorpusSizeSum(_)
CorpusSizeSum(ps) ==
    IF ps = {} THEN 0
    ELSE LET p == CHOOSE q \in ps : TRUE
         IN  Len(CorpusValues(corpus_dir, p)) + CorpusSizeSum(ps \ {p})

NoWorker == \A w \in 1..Len(wpc) : wpc[w] = "new"
NothingSent == \A t \in 1..Len(wire) : wire[t] = <<>>

\* The rows of the dry-run table, below the count line, the header and the rule
DryRunRows == SubSeq(stdout, 4, Len(stdout))

\* The labels of the encodings other than the manifest's own, in the order
\* XML, form, JSON
AlternativeLabels ==
    SelectSeq(<< <<"xml", "application/xml+xxe">>,
                 <<"form", "application/x-www-form-urlencoded">>,
                 <<"json", "application/json">> >>,
              LAMBDA e : e[1] # manifest.body_format)

\* C13: with --dry-run no request is sent and no session or worker is
\* made, in corpus mode and in probe mode; the run that is not fatal ends
\* having listed one row per corpus entry, as many as the corpus sizes sum
\* to, or one line per planned probe.
C13_DryRunSendsNothing ==
    args.dry_run =>
        /\ pc \in {"setup", "done", "exit_1"}
        /\ NothingSent /\ wire = <<>>
        /\ NoWorker
        /\ task_q = <<>> /\ result_q = <<>> /\ collected = <<>>
        /\ (pc = "done" /\ ~args.probe_encodings) =>
              /\ stdout[1].line = <<"Dry run", StrOfNat(CorpusSizeSum(WithCorpus))>>
              /\ Len(DryRunRows) = CorpusSizeSum(WithCorpus)
              /\ \A p \in WithCorpus : \A j \in 1..Len(CorpusValues(corpus_dir, p)) :
                    Cardinality({k \in 1..Len(DryRunRows) :
                        /\ DryRunRows[k].line[1] = p
                        /\ DryRunRows[k].line[2] = CorpusValues(corpus_dir, p)[j]})
                      = Cardinality({i \in 1..Len(CorpusValues(corpus_dir, p)) :
                            CorpusValues(corpus_dir, p)[i] = CorpusValues(corpus_dir, p)[j]})
        /\ (pc = "done" /\ args.probe_encodings) =>
              /\ Len(stdout) = 1 + Len(AlternativeLabels)
              /\ \A k \in 1..Len(AlternativeLabels) :
                    stdout[k + 1].line[1] = AlternativeLabels[k][2]

\* A dry run in corpus mode that listed two planned requests.
C13_Witness ==
    /\ args.dry_run /\ ~args.probe_encodings
    /\ pc = "done"
    /\ Len(DryRunRows) = 2
    /\ DryRunRows[1].line = << <<"path_", "0">>, <<"X">> >>
    /\ DryRunRows[2].line = << <<"q">>, <<"9">> >>

\* The run met one of the fatal setup failures
FatalCause ==
    \/ ~args.loadable
    \/ /\ ~args.probe_encodings
       /\ Requested = <<>> \/ WithCorpus = {}
    \/ /\ args.probe_encodings
       /\ \/ \A k \in 1..Len(manifest.body_params) : ~manifest.body_params[k].fuzzable
          \/ AlternativeLabels = <<>>

WarningsOf(p) ==
    {k \in 1..Len(stderr) :
        /\ stderr[k][1] \in {"[warn] No corpus file for",
                             "[warn] Corpus file is empty, skipping"}
        /\ stderr[k][2] = p}

\* C15: in corpus mode, past setup, the run is fatal exactly when no
\* requested parameter has a usable corpus; every skipped parameter has its
\* one warning on stderr and the others none; the tasks enqueued are those
\* of the parameters with a corpus and the total is the sum of their sizes.
C15_PartialCorpus ==
    (args.loadable /\ ~args.probe_encodings /\ pc # "setup" /\ Requested # <<>>) =>
        /\ pc = "exit_1" <=> WithCorpus = {}
        /\ \A p \in Skipped : Cardinality(WarningsOf(p)) = 1
        /\ \A p \in WithCorpus : WarningsOf(p) = {}
        /\ (pc # "exit_1" /\ ~args.dry_run) => total = CorpusSizeSum(WithCorpus)
        /\ pc = "start" =>
              /\ Len(SelectSeq(task_q, LAMBDA item : ~IsSentinel(item))) = total
              /\ \A k \in 1..Len(task_q) :
                    \/ IsSentinel(task_q[k])
                    \/ /\ task_q[k][1] \in WithCorpus
                       /\ \E j \in 1..Len(CorpusValues(corpus_dir, task_q[k][1])) :
                             CorpusValues(corpus_dir, task_q[k][1])[j] = task_q[k][2]

\* One parameter has no corpus file, the other has a value: the tasks are
\* enqueued.
C15_Witness ==
    /\ pc = "start"
    /\ Skipped # {} /\ WithCorpus # {}
    /\ total = 1
    /\ \E p \in Skipped : \E k \in 1..Len(stderr) :
          stderr[k] = <<"[warn] No corpus file for", p>>

\* The probe results printed so far, and those of probe t
ProbeResultsOf(t) == SelectSeq(collected, LAMBDA item : item.task = t)

\* C16: in probe mode the probes are the alternative encodings other than
\* the manifest's own, in the order XML, form, JSON; a probe is sent at most
\* once, with the one Content-Type header of its encoding, and has at most
\* one result, whose probe_encoding (and value) is its label; when the run
\* ends every probe has been sent once and has its one result, printed in
\* order.  A result of corpus mode has probe_encoding None.
C16_EncodingProbes ==
    /\ (args.probe_encodings /\ pc \in {"probe", "done", "crashed"} /\ ~args.dry_run) =>
          /\ Len(wire) = Len(AlternativeLabels)
          /\ \A t \in 1..Len(wire) :
                /\ Len(wire[t]) <= 1
                /\ Len(ProbeResultsOf(t)) <= Len(wire[t])
                /\ wire[t] # <<>> =>
                      /\ DictGet(wire[t][1][1].headers, <<"Content-Type">>)
                            = <<ProbeList(manifest)[t][2]>>
                      /\ Cardinality({k \in 1..Len(wire[t][1][1].headers) :
                            IsContentType(wire[t][1][1].headers[k][1])}) = 1
                      /\ ProbeList(manifest)[t][1] = AlternativeLabels[t][2]
                /\ \A k \in 1..Len(ProbeResultsOf(t)) :
                      /\ ProbeResultsOf(t)[k].probe_encoding = <<AlternativeLabels[t][2]>>
                      /\ ProbeResultsOf(t)[k].value = <<AlternativeLabels[t][2]>>
          /\ pc = "done" =>
                /\ \A t \in 1..Len(wire) : Len(wire[t]) = 1 /\ Len(ProbeResultsOf(t)) = 1
                /\ stdout = [k \in 1..Len(wire) |-> asdict(ProbeResultsOf(k)[1])]
    /\ ~args.probe_encodings =>
          \A k \in 1..Len(stdout) :
              "probe_encoding" \in DOMAIN stdout[k] => stdout[k].probe_encoding = NoValue

\* The probes of a JSON manifest: the XML probe, then the form probe, each
\* answered.
C16_Witness ==
    /\ args.probe_encodings
    /\ pc = "done"
    /\ manifest.body_format = "json"
    /\ Len(stdout) = 2
    /\ stdout[1].probe_encoding = <<"application/xml+xxe">>
    /\ stdout[2].probe_encoding = <<"application/x-www-form-urlencoded">>
    /\ DictGet(wire[2][1][1].headers, <<"Content-Type">>)
          = <<"application/x-www-form-urlencoded">>
    /\ wire[1][1][2].kind = "response"

\* C17: with --probe-encodings no corpus is loaded (none of its warnings is
\* printed), no task is enqueued, no worker is started and every result
\* printed is a probe's; without it no probe is built or sent and every
\* result printed is a task's.
C17_ModesExclusive ==
    /\ args.probe_encodings =>
          /\ task_q = <<>> /\ total = 0 /\ base_request = NoValue
          /\ NoWorker
          /\ \A p \in RequestedSet : WarningsOf(p) = {}
          /\ \A k \in 1..Len(stdout) :
                "param" \in DOMAIN stdout[k] =>
                    /\ stdout[k].param = <<"Content-Type">>
                    /\ stdout[k].probe_encoding # NoValue
    /\ ~args.probe_encodings =>
          /\ probes = <<>>
          /\ pc \notin {"probe", "crashed"}
          /\ Len(wire) = total
          /\ \A k \in 1..Len(collected) : collected[k].probe_encoding = NoValue

\* A probe run that has sent its first probe, of a manifest whose corpus
\* directory would yield tasks.
C17_Witness ==
    /\ args.probe_encodings
    /\ pc = "probe"
    /\ Len(collected) = 1
    /\ _load_corpus(corpus_dir, Requested) # <<>>

-----------------------------------------------------------------------------
(* Claims about request reconstruction, checked under SpecBuild.           *)

\* A worker has built the request of the task (fuzz_param, fuzz_value).
Built == pc = "build_fuzz" /\ fuzz_param # NoValue

\* The request with every original value, as run_baseline sends it.
Baseline == _build_request(manifest)

\* The body parameters a request carries, '' for a request without a body.
BodyParams(r) ==
    IF "json" \in r.keys THEN r.json ELSE IF "data" \in r.keys THEN r.data ELSE <<>>

ReqUrl == urlparse(req.url)
ManifestUrl == urlparse(manifest.url)

\* The id names a fuzzable path segment / a query parameter / a body
\* parameter of the manifest.
AddressesPath ==
    \E k \in 1..Len(manifest.path_segments) :
        manifest.path_segments[k].fuzzable /\ PathId(manifest.path_segments[k]) = fuzz_param
AddressesQuery == fuzz_param \in ParamNames(manifest.query_params)
AddressesBody == fuzz_param \in ParamNames(manifest.body_params)

\* The path segments of a URL as <<id, value>> pairs, numbered as the
\* decoder numbers them, and its query parameters as <<name, value>> pairs.
SegmentPairs(parsed) ==
    [k \in 1..Len(_parse_path_segments(parsed.path)) |->
        <<PathId(_parse_path_segments(parsed.path)[k]),
          _parse_path_segments(parsed.path)[k].value>>]
QueryPairs(parsed) == parse_qsl(parsed.query)

\* The pairs xs are the pairs ys, except for the values under id
SameExceptAt(xs, ys, id) ==
    /\ Len(xs) = Len(ys)
    /\ \A k \in 1..Len(ys) : xs[k][1] = ys[k][1] /\ (ys[k][1] = id \/ xs[k] = ys[k])

\* C1: the request built for a task equals the baseline request in method,
\* every header, every path segment, every query parameter and every body
\* parameter, except at the location the task's id addresses; a path or query
\* task on a json or form manifest still carries every baseline body parameter.
C1_Isolation ==
    Built =>
        /\ req.method = Baseline.method
        /\ req.headers = Baseline.headers
        /\ SameExceptAt(SegmentPairs(ReqUrl), SegmentPairs(ManifestUrl), fuzz_param)
        /\ SameExceptAt(QueryPairs(ReqUrl), QueryPairs(ManifestUrl), fuzz_param)
        /\ SameExceptAt(BodyParams(req), BodyParams(Baseline), fuzz_param)

\* The locations a request differs from the baseline in.
PathChanged == ReqUrl.path # ManifestUrl.path
QueryChanged == QueryPairs(ReqUrl) # QueryPairs(ManifestUrl)
BodyChanged == BodyParams(req) # BodyParams(Baseline)

\* The id is an id of two namespaces, or has the shape path_<digits> without
\* naming a fuzzable path segment.
Conflated ==
    \/ AddressesQuery /\ AddressesBody
    \/ AddressesPath /\ (AddressesQuery \/ AddressesBody)
    \/ /\ Slice(fuzz_param, 0, 1) = <<"path_">>
       /\ IsDigitString(Slice(fuzz_param, 1, Len(fuzz_param)))
       /\ ~AddressesPath

\* C4: a task whose id is shared between namespaces changes one location
\* only, a location that has this id, and leaves the others at their baseline.
C4_NamespacesNotConflated ==
    (Built /\ Conflated) =>
        /\ PathChanged => (AddressesPath /\ ~QueryChanged /\ ~BodyChanged)
        /\ QueryChanged => (AddressesQuery /\ ~PathChanged /\ ~BodyChanged)
        /\ BodyChanged => (AddressesBody /\ ~PathChanged /\ ~QueryChanged)

HasDuplicateNames(pairs) ==
    \E j, k \in 1..Len(pairs) : j # k /\ pairs[j][1] = pairs[k][1]

\* C5: for a query string with several pairs of one name, the URL of a query
\* task has as many pairs as the manifest URL, in the same order, under the
\* same names, and the values of the other names are unchanged.
C5_QueryDuplicatesPreserved ==
    (Built /\ AddressesQuery /\ ~Conflated /\ HasDuplicateNames(QueryPairs(ManifestUrl))) =>
        /\ Len(QueryPairs(ReqUrl)) = Len(QueryPairs(ManifestUrl))
        /\ \A k \in 1..Len(QueryPairs(ManifestUrl)) :
              /\ QueryPairs(ReqUrl)[k][1] = QueryPairs(ManifestUrl)[k][1]
              /\ QueryPairs(ManifestUrl)[k][1] # fuzz_param
                    => QueryPairs(ReqUrl)[k][2] = QueryPairs(ManifestUrl)[k][2]
              /\ QueryPairs(ManifestUrl)[k][1] = fuzz_param
                    => QueryPairs(ReqUrl)[k][2] \in {fuzz_value, QueryPairs(ManifestUrl)[k][2]}

\* The index _parse_path_segments gives the part at position pos of
\* path.split("/"): the number of kept parts before it.
SegmentIndexAt(parts, pos) == Cardinality({j \in 1..(pos - 1) : IsRealSegment(parts[j])})

\* The path with the segment of index i replaced by value, every other part
\* of the path as it was.
PathWithSegment(path, i, value) ==
    Join([pos \in 1..Len(Split(path, "/")) |->
            IF IsRealSegment(Split(path, "/")[pos])
               /\ SegmentIndexAt(Split(path, "/"), pos) = i
            THEN value ELSE Split(path, "/")[pos]], "/")

\* C6: the URL of a path task path_i carries the manifest URL's path with the
\* segment of index i (counted without the empty, '.' and '..' parts)
\* replaced by the value and every other part unchanged.
C6_PathSegmentReplaced ==
    (Built /\ AddressesPath) =>
        StartsWithAt(req.url,
            Origin \o PathWithSegment(ManifestUrl.path,
                          IntOfDigits(Slice(fuzz_param, 1, Len(fuzz_param))), fuzz_value),
            0)

\* The text of a URL from its first '?' or '#' on.
UrlTail(url) == Slice(url, FindAnyFrom(url, {"?", "#"}, 0, Len(url)), Len(url))

\* C7: the URL of a path task ends with the query string and the fragment of
\* the manifest URL, character for character.
C7_PathTaskKeepsQueryAndFragment ==
    (Built /\ AddressesPath) =>
        Slice(req.url, Len(req.url) - Len(UrlTail(manifest.url)), Len(req.url))
            = UrlTail(manifest.url)

-----------------------------------------------------------------------------
(* Claims about the preview extractor, checked under SpecPreview.          *)

\* The whole body on one line, as line 112 collapses a slice.
CollapsedBody == Replace(Replace(body, NL, <<SP>>), CR, <<>>)

NeedleFound ==
    /\ cfg.fuzzy_needle # NoValue
    /\ Find(body, cfg.fuzzy_needle) # -1

\* C8: with a configured length of 0 the preview is the whole body with its
\* newlines and carriage returns collapsed, whatever the offset and needle.
C8_ZeroLengthReturnsFullBody ==
    (pc = "preview_done" /\ cfg.length = 0) => preview = CollapsedBody

\* C9: with a length L > 0 and a needle that occurs in the body, the preview
\* contains the needle.
C9_PreviewContainsNeedle ==
    (pc = "preview_done" /\ cfg.length > 0 /\ NeedleFound)
        => Contains(preview, cfg.fuzzy_needle)

\* C10: with a length L > 0 and a needle that occurs in the body, the
\* preview has at most L characters.
C10_NeedlePreviewBounded ==
    (pc = "preview_done" /\ cfg.length > 0 /\ NeedleFound)
        => Len(preview) <= cfg.length

\* The slice body[offset : offset + length].
OffsetSlice == Slice(body, cfg.offset, cfg.offset + cfg.length)

SelectedSlice == Slice(body, window[1], window[2])

\* C12: the preview has no newline and no carriage return: it is the
\* selected slice with each newline and each carriage return turned into a
\* space.
C12_PreviewSingleLine ==
    pc = "preview_done" =>
        /\ ~Contains(preview, <<NL>>)
        /\ ~Contains(preview, <<CR>>)
        /\ preview = Replace(Replace(SelectedSlice, NL, <<SP>>), CR, <<SP>>)

-----------------------------------------------------------------------------
(* Claims about the pure functions, checked under SpecPure.                *)

Coerced == pc = "returned" /\ call.fn = "_coerce_value"

\* The fuzz value is none of the three words every field type coerces
NoKeyword == call.value \notin {<<"null">>, <<"true">>, <<"false">>}

\* int() accepts the value, which has no '.'; float() accepts the value,
\* which has a '.'
ReadsAsInt == ~Contains(call.value, <<".">>) /\ IsIntLiteral(call.value)
ReadsAsFloat == Contains(call.value, <<".">>) /\ IsFloatLiteral(call.value)

TrueWords == {<<"1">>, <<"yes">>, <<"on">>}
FalseWords == {<<"0">>, <<"no">>, <<"off">>}

\* What C18 says of every field type, and of a boolean field
KeywordsAndBooleans ==
    /\ call.value = <<"null">> => result = JNull
    /\ call.value = <<"true">> => result = JBool(TRUE)
    /\ call.value = <<"false">> => result = JBool(FALSE)
    /\ (call.type = "boolean" /\ call.value \in TrueWords) => result = JBool(TRUE)
    /\ (call.type = "boolean" /\ call.value \in FalseWords) => result = JBool(FALSE)

\* C18 as stated: "null", "true" and "false" give null and the booleans for
\* every type; an integer field turns a numeric string into its integer and
\* keeps a string that is no number; a boolean field reads 1/yes/on and
\* 0/no/off; every other value is kept as the string it is.
C18_CoercionAsStated ==
    Coerced =>
        /\ KeywordsAndBooleans
        /\ (NoKeyword /\ call.type = "integer" /\ ReadsAsInt) =>
              result = JInt(IntLiteral(call.value))
        /\ (NoKeyword /\ call.type = "integer" /\ ~ReadsAsInt /\ ~ReadsAsFloat) =>
              result = JStr(call.value)
        /\ (NoKeyword /\ call.type # "integer"
              /\ ~(call.type = "boolean" /\ call.value \in TrueWords \cup FalseWords)) =>
              result = JStr(call.value)

\* C18, amended: as stated, but for an integer or a float field a value
\* without '.' that int() accepts gives that integer, a value with '.' that
\* float() accepts gives that float, and any other value is kept; every
\* value of a field of another type (the boolean words apart) is kept.
C18_Coercion ==
    Coerced =>
        /\ KeywordsAndBooleans
        /\ (NoKeyword /\ call.type \in {"integer", "float"} /\ ReadsAsInt) =>
              result = JInt(IntLiteral(call.value))
        /\ (NoKeyword /\ call.type \in {"integer", "float"} /\ ReadsAsFloat) =>
              result = FloatLiteral(call.value)
        /\ (NoKeyword /\ call.type \in {"integer", "float"}
              /\ ~ReadsAsInt /\ ~ReadsAsFloat) =>
              result = JStr(call.value)
        /\ (NoKeyword /\ call.type \notin {"integer", "float"}
              /\ ~(call.type = "boolean" /\ call.value \in TrueWords \cup FalseWords)) =>
              result = JStr(call.value)

\* "1.5" for a float field is the number 1.5.
C18_Witness ==
    /\ Coerced
    /\ call.type = "float"
    /\ call.value = <<"1", ".", "5">>
    /\ result = JFloat(1, <<"5">>, FALSE)

Classified == pc = "returned" /\ call.fn = "_is_fuzzable_path_segment"

\* The segment is five groups of 8, 4, 4, 4 and 12 hex digits joined by '-'
IsCanonicalUuid(segment) ==
    /\ Len(Split(segment, "-")) = 5
    /\ \A k \in 1..5 :
          /\ Len(Split(segment, "-")[k]) = <<8, 4, 4, 4, 12>>[k]
          /\ \A i \in 1..Len(Split(segment, "-")[k]) :
                Split(segment, "-")[k][i] \in Digits \cup HexLetters

Rebuilt == pc = "returned" /\ call.fn = "_build_fuzz_request"

\* The id names a segment of the URL path, a query parameter, or a body
\* parameter of a json or form body
NamesPathSegment ==
    /\ Len(call.param) >= 2
    /\ call.param[1] = "path_"
    /\ IsDigitString(Tail(call.param))
    /\ \E k \in 1..Len(manifest.path_segments) :
          manifest.path_segments[k].index = IntOfDigits(Tail(call.param))
NamesQueryParam == call.param \in ParamNames(manifest.query_params)
NamesBodyParam ==
    /\ call.param \in ParamNames(manifest.body_params)
    /\ manifest.body_format \in {"json", "form"}

\* C19: for a parameter id that names no location of the manifest,
\* _build_fuzz_request returns the baseline request: the method, the URL, the
\* headers and the body parameters that run_baseline sends.
C19_UnknownParamIsBaseline ==
    (Rebuilt /\ ~NamesPathSegment /\ ~NamesQueryParam /\ ~NamesBodyParam) =>
        /\ result.method = _build_request(manifest).method
        /\ result.url = _build_request(manifest).url
        /\ result.headers = _build_request(manifest).headers
        /\ BodyParams(result) = BodyParams(_build_request(manifest))

\* The sensitive header names of the specification, as texts
SensitiveNames ==
    { "authorization", "cookie", "x-csrf-token", "x-xsrf-token", "x-api-key",
      "x-auth-token", "api-key", "x-access-token" }

IsSensitive(name) == Text(Lower(name)) \in SensitiveNames

HeaderClassified == pc = "returned" /\ call.fn = "_classify_header"

\* The Header records of the manifest a decoder produced
DecodedHeaders ==
    IF call.fn = "_build_fuzz_request"
    THEN {manifest.headers[k] : k \in 1..Len(manifest.headers)}
    ELSE {}

\* C21: every Header a decoder produces whose lower-cased name is in the
\* sensitive set has fuzzable = false and a non-empty reason, whatever the
\* letter case of the name (the header is classified as its lower-cased name
\* is); every other header has fuzzable = true.
C21_SensitiveHeaders ==
    /\ HeaderClassified =>
          /\ result.name = call.value
          /\ IsSensitive(call.value) => ~result.fuzzable /\ result.reason # <<>>
          /\ ~IsSensitive(call.value) => result.fuzzable
          /\ result.fuzzable = _classify_header(Lower(call.value), <<"v">>).fuzzable
    /\ \A h \in DecodedHeaders :
          /\ IsSensitive(h.name) => ~h.fuzzable /\ h.reason # <<>>
          /\ ~IsSensitive(h.name) => h.fuzzable

\* A sensitive name written in mixed case has been classified
C21_Witness ==
    /\ HeaderClassified
    /\ call.value = <<"c", "O", "o", "K", "i", "E">>
    /\ ~result.fuzzable

-----------------------------------------------------------------------------
(* Claims about the two output streams of a run, checked under Spec.       *)

\* A line of stdout is a FuzzResult JSON object
IsResultLine(l) == "param" \in DOMAIN l
\* A line of stdout is an {"error": ...} JSON object
IsErrorObject(l) == "error" \in DOMAIN l /\ "param" \notin DOMAIN l

\* No line of stderr is a JSON object: each is a <<label, detail>> message
DiagnosticsOnly == \A k \in 1..Len(stderr) : Len(stderr[k]) = 2

\* C22: in every run (corpus mode, encoding-probe mode, with or without
\* --dry-run) each line on standard output is a FuzzResult JSON object or the
\* one final error JSON object; progress, warnings, plans and summaries are
\* on standard error only.
C22_StdoutMachineParseable ==
    /\ \A k \in 1..Len(stdout) :
          \/ IsResultLine(stdout[k])
          \/ IsErrorObject(stdout[k]) /\ k = Len(stdout) /\ pc = "exit_1"
    /\ DiagnosticsOnly

-----------------------------------------------------------------------------
(* Claims about the workers and the collector, checked under Spec and      *)
(* LiveSpec.                                                               *)

\* The corpus run has been set up: the base request is built and the tasks
\* are enqueued (the other modes leave total at 0)
CorpusRun == total > 0

\* The t-th task enqueued, and the request built for it from a base request
\* that no other call has seen
TaskOf(t) == TasksOf(Corpus)[t]
FreshRequest(t) ==
    _build_fuzz_request(_build_base_request(manifest), TaskOf(t)[1], TaskOf(t)[2],
                        manifest)

RequestsFromFreshBase ==
    CorpusRun =>
        /\ base_request = _build_base_request(manifest)
        /\ \A t \in 1..Len(wire) : \A k \in 1..Len(wire[t]) :
              wire[t][k][1] = FreshRequest(t)

\* C23: the base request and the manifest are never modified after
\* construction: whatever requests the workers have built, in whatever order,
\* the base request equals what _build_base_request returned, no step changes
\* it or the manifest, and the request built for a task is the one built from
\* an untouched base request, whichever tasks were built before it.
C23_BaseNeverModified ==
    /\ [](RequestsFromFreshBase)
    /\ [][manifest' = manifest /\ (CorpusRun => base_request' = base_request)]_vars

\* Two workers have built the requests of two tasks, the second task first
C23_Witness ==
    /\ CorpusRun /\ threads = 2
    /\ Len(Items) = 2
    /\ Items[1].task = 2 /\ Items[2].task = 1
    /\ wire[1] # <<>> /\ wire[2] # <<>>

\* The tasks whose request raised an exception that _send_one does not turn
\* into a FuzzResult
RaisedTasks ==
    {t \in 1..Len(wire) : wire[t] # <<>> /\ wire[t][1][2].kind = "Exception"}

ExceptionsOf(items) == SelectSeq(items, LAMBDA item : item.class = "Exception")
ResultsOf(items) == SelectSeq(items, LAMBDA item : item.class = "FuzzResult")

WorkerErrorLines ==
    SelectSeq(stderr, LAMBDA line : line[1] = "[error] Worker exception")

\* C24: an exception raised in a worker while it reconstructs or sends a task
\* is caught for that task only: the worker puts the exception on the result
\* queue, marks the task done and goes on to its next task (it ends only on a
\* sentinel); the collector logs each exception it consumes on standard error
\* with its message, counts it as completed and prints no result line for it.
C24_WorkerExceptionPerTask ==
    CorpusRun =>
        /\ \A t \in RaisedTasks :
              Len(ItemsOf(t)) = 1 /\ ItemsOf(t)[1].class = "Exception"
        /\ unfinished = (total + threads) - Len(Items)
                            - Cardinality({w \in Workers : wpc[w] = "exit"})
        /\ \A w \in Workers : wpc[w] = "exit" => IsSentinel(witem[w])
        /\ completed = Len(collected)
        /\ [k \in 1..Len(WorkerErrorLines) |-> WorkerErrorLines[k][2]]
              = [k \in 1..Len(ExceptionsOf(collected)) |-> ExceptionsOf(collected)[k].error]
        /\ stdout = [k \in 1..Len(ResultsOf(collected)) |-> asdict(ResultsOf(collected)[k])]

\* The one worker raised on the first task and then completed the second; the
\* collector has consumed both
C24_Witness ==
    /\ CorpusRun /\ threads = 1 /\ total = 2
    /\ RaisedTasks = {1}
    /\ wire[2] # <<>>
    /\ completed = 2
    /\ Len(stdout) = 1 /\ Len(WorkerErrorLines) = 1

\* The last line of standard error is the Done line with the count n
DoneReports(n) ==
    stderr # <<>> /\ stderr[Len(stderr)] = <<"Done", StrOfNat(n)>>

\* C25: the collector always terminates.  Its loop is left either with the
\* number of consumed items at the known total or, on a wait that found the
\* result queue empty for timeout + 5 s, with the warning printed and the
\* count as it was; main then joins the workers with a bound and ends with
\* the Done line giving the number of items consumed, never more than the
\* total.  This holds with a worker that never returns and with no worker.
C25_CollectorTerminates ==
    /\ (pc = "collect") ~> (pc = "done")
    /\ [][(pc = "collect" /\ pc' # "collect") =>
            /\ pc' = "join"
            /\ \/ completed' = completed + 1 /\ completed' = total
               \/ /\ result_q = <<>>
                  /\ completed' = completed
                  /\ stderr' = Append(stderr,
                        <<"[warn] Result queue timed out waiting for worker", <<>>>>)]_vars
    /\ [](CorpusRun =>
            /\ completed = Len(collected) /\ completed <= total
            /\ TimeoutWarned => completed < total
            /\ pc = "done" => DoneReports(completed))

\* The run has ended early: a worker is still inside its request, the
\* collector has given up with the warning, and fewer results than tasks
\* are reported
C25_Witness ==
    /\ pc = "done" /\ CorpusRun
    /\ \E w \in Workers : wpc[w] = "send"
    /\ TimeoutWarned
    /\ completed < total
    /\ DoneReports(completed)

\* The fuzzable path segments, query parameters and body parameters of the
\* manifest, each list in the manifest's order
FuzzableSegments == SelectSeq(manifest.path_segments, LAMBDA q : q.fuzzable)
FuzzableQuery == SelectSeq(manifest.query_params, LAMBDA q : q.fuzzable)
FuzzableBody == SelectSeq(manifest.body_params, LAMBDA q : q.fuzzable)

IsPathTask(p) == \E k \in 1..Len(FuzzableSegments) : PathId(FuzzableSegments[k]) = p
IsQueryTask(p) == ~IsPathTask(p) /\ \E k \in 1..Len(FuzzableQuery) : FuzzableQuery[k].name = p
IsBodyTask(p) ==
    ~IsPathTask(p) /\ ~IsQueryTask(p) /\ \E k \in 1..Len(FuzzableBody) : FuzzableBody[k].name = p

\* The place of the parameter id p in the order of the claim: the group
\* (path, query, body) and the first position in the group's list
FirstNamed(params, p) == CHOOSE k \in 1..Len(params) :
    params[k].name = p /\ \A j \in 1..(k - 1) : params[j].name # p
PlaceOf(p) ==
    IF IsPathTask(p)
    THEN <<1, (CHOOSE k \in 1..Len(FuzzableSegments) : PathId(FuzzableSegments[k]) = p)>>
    ELSE IF IsQueryTask(p) THEN <<2, FirstNamed(FuzzableQuery, p)>>
    ELSE <<3, FirstNamed(FuzzableBody, p)>>
ComesBefore(p, q) ==
    \/ PlaceOf(p)[1] < PlaceOf(q)[1]
    \/ PlaceOf(p)[1] = PlaceOf(q)[1] /\ PlaceOf(p)[2] < PlaceOf(q)[2]

\* The parameter ids a run may fuzz: fuzzable, and on the allow-list when
\* one is given
Allowed(p) ==
    /\ IsPathTask(p) \/ IsQueryTask(p) \/ IsBodyTask(p)
    /\ args.params = <<>> \/ \E k \in 1..Len(args.params) : args.params[k] = p

QueuedTasks == SelectSeq(task_q, LAMBDA item : ~IsSentinel(item))
QueuedValuesOf(p) ==
    [k \in 1..Len(SelectSeq(QueuedTasks, LAMBDA task : task[1] = p)) |->
        SelectSeq(QueuedTasks, LAMBDA task : task[1] = p)[k][2]]

-----------------------------------------------------------------------------
(* Claims about the two preview extractors, checked under SpecPreview.     *)

\* C27: the baseline prober's _extract_body(body, length, offset, needle)
\* returns the same string as the executor's _extract_preview(body,
\* PreviewConfig(length, offset, needle)), for every body, length, offset and
\* needle.
C27_BaselineMatchesExecutor ==
    pc = "body_done" => result = _extract_preview(body, cfg)

\* The window centred on the needle before it is snapped (lines 99-102)
CentredStart ==
    Max2(0, (Find(body, cfg.fuzzy_needle) + (Len(cfg.fuzzy_needle) \div 2))
                - (cfg.length \div 2))
CentredEnd == Min2(Len(body), CentredStart + cfg.length)

\* The character c occurs in body[lo:hi]
OccursIn(c, lo, hi) == \E i \in lo..(hi - 1) : At(body, i) = c

\* The range the start snap and the end snap search from
StartSearchFrom == Max2(0, CentredStart - _HTML_BOUNDARY_SEARCH)
EndSearchFrom == Max2(window[1], CentredEnd - _HTML_BOUNDARY_SEARCH)

\* C28: in needle mode with a length >= 0 and the needle found, the snapped
\* window satisfies 0 <= start <= end <= len(body).  The start lies within
\* the search distance at or before the centred start and the end lies
\* between max(start, centred end - 80) and the centred end, so the end is
\* never below the snapped start; each stays where it was when its boundary
\* character does not occur in the range searched.
C28_SnappedWindowOrdered ==
    (pc = "preview_done" /\ NeedleFound /\ cfg.length >= 0) =>
        /\ 0 <= window[1] /\ window[1] <= window[2] /\ window[2] <= Len(body)
        /\ StartSearchFrom <= window[1] /\ window[1] <= CentredStart
        /\ ~OccursIn(">", StartSearchFrom, CentredStart) => window[1] = CentredStart
        /\ EndSearchFrom <= window[2] /\ window[2] <= CentredEnd
        /\ ~OccursIn("<", EndSearchFrom, CentredEnd) => window[2] = CentredEnd

\* A '<' lies before the snapped start and within 80 characters of the
\* centred end, and the end has stayed where it was
C28_Witness ==
    /\ pc = "preview_done" /\ NeedleFound /\ cfg.length > 0
    /\ window[1] > 0
    /\ OccursIn("<", Max2(0, CentredEnd - _HTML_BOUNDARY_SEARCH), window[1])
    /\ window[2] = CentredEnd
    /\ window[2] > window[1]

\* The sentinels still on the task queue, and the workers that have left
\* their loop
QueuedSentinels == SelectSeq(task_q, IsSentinel)
Exited == {w \in Workers : wpc[w] = "exit"}
AllExited == Exited = Workers

\* Every sentinel of the queue is behind every task of the queue
SentinelsLast ==
    \A i \in 1..Len(task_q) : \A j \in (i + 1)..Len(task_q) :
        IsSentinel(task_q[i]) => IsSentinel(task_q[j])

\* What holds in every state of a corpus run with N >= 1 workers: a sentinel
\* is at the head of the queue only when no task is left in it; every worker
\* that has left its loop took one sentinel, and every other sentinel is
\* still queued; a worker that has taken a sentinel holds no task
ShutdownState ==
    (CorpusRun /\ threads >= 1) =>
        /\ SentinelsLast
        /\ Len(QueuedSentinels) + Cardinality(Exited) = threads
        /\ \A w \in Exited : IsSentinel(witem[w])
        /\ AllExited => task_q = <<>> /\ taken = total

\* A worker leaves its loop only by taking a sentinel off a queue without
\* tasks, puts nothing on the result queue in that step, and takes no step
\* afterwards
ShutdownStep ==
    \A w \in Workers :
        /\ (wpc[w] # "exit" /\ wpc'[w] = "exit") =>
              /\ task_q # <<>> /\ IsSentinel(Head(task_q))
              /\ task_q' = Tail(task_q)
              /\ QueuedTasks = <<>>
              /\ result_q' = result_q
        /\ wpc[w] = "exit" => wpc'[w] = "exit" /\ witem'[w] = witem[w]

\* C29 as stated: poison-pill shutdown with N >= 1 workers.  No worker takes
\* a sentinel while a task is queued, each worker takes exactly one sentinel
\* and then ends without a put on the result queue, and, every request
\* returning, all N workers eventually end and the task queue ends empty.
C29_PoisonPillAsStated ==
    /\ [](ShutdownState)
    /\ [][ShutdownStep]_vars
    /\ (pc = "collect" /\ threads >= 1) ~> (AllExited /\ task_q = <<>>)

\* C29: the same for the states and the steps; and, every request
\* returning, all N workers eventually end and the task queue ends empty
\* unless the main thread ends the process before that.
C29_PoisonPill ==
    /\ [](ShutdownState)
    /\ [][ShutdownStep]_vars
    /\ (pc = "collect" /\ threads >= 1)
          ~> (pc = "done" \/ (AllExited /\ task_q = <<>>))

\* Both workers have taken their sentinel after the two tasks were sent, the
\* queue is empty, and the main thread has not ended the run
C29_Witness ==
    /\ CorpusRun /\ threads = 2 /\ total = 2
    /\ AllExited /\ task_q = <<>>
    /\ Len(Items) = 2
    /\ pc # "done"

\* The workers that hold task t between their get and their put
InFlight(t) == {w \in Workers : wpc[w] = "send" /\ wtask[w] = t}

\* The result lines the collector has printed on standard output
EmittedResults == SelectSeq(stdout, IsResultLine)

\* What holds in every state of a corpus run: a task that was dequeued is
\* either held by exactly one worker, with nothing put for it, or no worker
\* holds it and exactly one item was put for it; a task still queued is held
\* by nobody and has no item; a worker holds the (param, value) pair that was
\* enqueued under its task's number; and the counters are ordered
DispatchState ==
    CorpusRun =>
        /\ \A t \in 1..total :
              IF t <= taken
              THEN Cardinality(InFlight(t)) + Len(ItemsOf(t)) = 1
              ELSE InFlight(t) = {} /\ ItemsOf(t) = <<>>
        /\ \A w \in Workers : wpc[w] = "send" => witem[w] = TaskOf(wtask[w])
        /\ \A k \in 1..Len(Items) :
              /\ Items[k].class \in {"FuzzResult", "Exception"}
              /\ Items[k].task \in 1..taken
        /\ Len(QueuedTasks) = total - taken
        /\ Len(EmittedResults) + Len(WorkerErrorLines) = completed
        /\ completed <= Len(Items)
        /\ Len(Items) <= taken
        /\ taken <= total

\* A dequeue takes the head of the task queue for one worker and leaves the
\* other workers as they were; a put adds one item, for the task of the
\* worker that leaves its request
DispatchStep ==
    CorpusRun =>
        /\ task_q' # task_q => task_q' = Tail(task_q)
        /\ taken' # taken =>
              /\ taken' = taken + 1
              /\ task_q' = Tail(task_q)
              /\ \E w \in Workers :
                    /\ wpc[w] = "get" /\ wpc'[w] = "send"
                    /\ witem'[w] = Head(task_q) /\ wtask'[w] = taken'
                    /\ \A v \in Workers \ {w} :
                          wpc'[v] = wpc[v] /\ witem'[v] = witem[v] /\ wtask'[v] = wtask[v]
        /\ Len(Items') # Len(Items) =>
              /\ Len(Items') = Len(Items) + 1
              /\ \E w \in Workers :
                    /\ wpc[w] = "send" /\ wpc'[w] # "send"
                    /\ Items'[Len(Items')].task = wtask[w]
                    /\ \A v \in Workers \ {w} : wpc'[v] = wpc[v]

\* C30: at-most-once dispatch under every interleaving of the workers: no
\* task is dequeued by more than one worker, each dequeued task leads to
\* exactly one put on the result queue (a FuzzResult or an exception, never
\* both), and in every state results emitted + exceptions logged = completed
\* <= results put <= tasks dequeued <= total.
C30_AtMostOnceDispatch ==
    /\ [](DispatchState)
    /\ [][DispatchStep]_vars

\* Two workers took the two tasks, the second worker the first task; the
\* second task's item was put first; one item is an exception and one a
\* result, and the collector has consumed both
C30_Witness ==
    /\ CorpusRun /\ threads = 2 /\ total = 2
    /\ wtask[1] = 2 /\ wtask[2] = 1
    /\ Len(Items) = 2 /\ Items[1].task = 2
    /\ Len(ExceptionsOf(Items)) = 1
    /\ completed = 2
    /\ Len(EmittedResults) = 1 /\ Len(WorkerErrorLines) = 1

=============================================================================
